---- MODULE Spec2Model ----
(***************************************************************************)
(* LaunchPad: the project / component lifecycle model.                     *)
(*                                                                         *)
(*   - LaunchService (backend/src/core/launcher.py): the in-memory         *)
(*     projects, the component actions, launch_project and the derivation  *)
(*     of a project's aggregate status.                                    *)
(*   - Project (src/core/project.py): add_history, touch, to_dict,         *)
(*     from_dict.                                                          *)
(*   - ProjectDatabase (backend/src/core/database.py): the projects table, *)
(*     get_project and upsert_project.                                     *)
(*                                                                         *)
(* Strings that the code only copies or compares are TLA+ strings.  A      *)
(* status string, which the code lower-cases and searches, has its         *)
(* characters listed in Chars.  A text built by an f-string is the tuple   *)
(* of its parts, and so are the texts stored in the same fields.           *)
(* A datetime is a number of minutes; None for a datetime is NoTime.       *)
(***************************************************************************)
EXTENDS Integers, Sequences, FiniteSets, TLC

VARIABLES
    projects,   \* LaunchService._projects: key -> Project
    last,       \* the last LaunchService call and what it returned
    clock,      \* the wall clock read by datetime.now() / datetime.utcnow()
    steps,      \* number of calls made so far
    warmed,     \* number of earlier calls made on a long-running service
    statuses,   \* argument list of a direct status derivation
    derived,    \* its result
    db,         \* ProjectDatabase: the rows of table projects, by key
    ents,       \* Project objects held by callers of ProjectDatabase
    dbret,      \* the last ProjectDatabase call and what it returned
    firstUp,    \* per held object: its upserts so far and what the first one set
    store,      \* ProjectStore: its list model's projects and overviews, its details
    listModel,  \* ProjectListModel (src/gui/project_list_model.py): its projects
    guiret,     \* the last call of either and what it returned
    subject,    \* a Project held by a caller of its own methods
    outcome     \* the last call on it, or the payload received, and the result

vars == <<projects, last, clock, steps, warmed, statuses, derived, db, ents, dbret,
          firstUp, store, listModel, guiret, subject, outcome>>

launchVars == <<projects, last, warmed>>
deriveVars == <<statuses, derived>>
dbVars     == <<db, ents, dbret, firstUp>>
guiVars    == <<store, listModel, guiret>>
codecVars  == <<subject, outcome>>

----------------------------------------------------------------------------
(* Bounds of the model *)

MaxSteps    == 2    \* calls per behaviour
MaxClock    == 1    \* times the clock advances
MaxStatuses == 3    \* length of a status list handed to the derivation
WarmUp      == 99   \* earlier calls made on a long-running service
MaxEnts     == 3    \* Project objects held by callers of the database
MaxDbSteps  == 2    \* database calls per behaviour
MaxImport   == 2    \* projects in one bulk_import
MaxGuiSteps == 2    \* calls of ProjectStore and ProjectListModel per behaviour
MaxCodecSteps == 2  \* calls on a held Project per behaviour

(* Program constants *)

MaxEntries == 100   \* _limit(entries, maximum=100)
NoTime     == -1    \* created_at / updated_at = None

----------------------------------------------------------------------------
(* Strings as the code inspects them *)

\* The characters of every status string, key, name and tag of the model.
Chars(s) ==
    CASE s = "Running" -> <<"R","u","n","n","i","n","g">>
      [] s = "RUNNING" -> <<"R","U","N","N","I","N","G">>
      [] s = "Paused"  -> <<"P","a","u","s","e","d">>
      [] s = "Stopped" -> <<"S","t","o","p","p","e","d">>
      [] s = "Failed"  -> <<"F","a","i","l","e","d">>
      [] s = "Error"   -> <<"E","r","r","o","r">>
      [] s = "Ready"   -> <<"R","e","a","d","y">>
      [] s = ""        -> <<>>
      [] s = "fail"    -> <<"f","a","i","l">>
      [] s = "error"   -> <<"e","r","r","o","r">>
      [] s = "running" -> <<"r","u","n","n","i","n","g">>
      [] s = "paused"  -> <<"p","a","u","s","e","d">>
      [] s = "stopped" -> <<"s","t","o","p","p","e","d">>
      [] s = "nebula" -> <<"n","e","b","u","l","a">>
      [] s = "aurora" -> <<"a","u","r","o","r","a">>
      [] s = "lunar" -> <<"l","u","n","a","r">>
      [] s = "quasar" -> <<"q","u","a","s","a","r">>
      [] s = "web" -> <<"w","e","b">>
      [] s = "api" -> <<"a","p","i">>
      [] s = "web, api" -> <<"w","e","b",","," ","a","p","i">>
      [] s = "alpha" -> <<"a","l","p","h","a">>
      [] s = "Beta" -> <<"B","e","t","a">>
      [] s = "beta" -> <<"b","e","t","a">>
      [] s = "gamma" -> <<"g","a","m","m","a">>
      [] s = " " -> <<" ">>
      [] s = "alpha " -> <<"a","l","p","h","a"," ">>
      [] s = "Nebula CRM" -> <<"N","e","b","u","l","a"," ","C","R","M">>
      [] s = "Aurora Analytics" -> <<"A","u","r","o","r","a"," ","A","n","a","l","y","t","i","c","s">>
      [] s = "Lunar Ops" -> <<"L","u","n","a","r"," ","O","p","s">>
      [] s = "Quasar Docs" -> <<"Q","u","a","s","a","r"," ","D","o","c","s">>

UpperLetters == <<"A","B","C","D","E","F","G","H","I","J","K","L","M",
                  "N","O","P","Q","R","S","T","U","V","W","X","Y","Z">>
LowerLetters == <<"a","b","c","d","e","f","g","h","i","j","k","l","m",
                  "n","o","p","q","r","s","t","u","v","w","x","y","z">>

\* The position of c in letters, 0 when it is not among them.
LetterIndex(letters, c) ==
    IF \E i \in 1..Len(letters) : letters[i] = c
    THEN CHOOSE i \in 1..Len(letters) : letters[i] = c
    ELSE 0

\* str.lower() on one character.
LowerChar(c) ==
    IF LetterIndex(UpperLetters, c) # 0
    THEN LowerLetters[LetterIndex(UpperLetters, c)]
    ELSE c

\* ord(c) for a letter, a space or a comma: upper case comes before lower case.
Ord(c) ==
    IF c = " " THEN 32
    ELSE IF c = "," THEN 44
    ELSE IF LetterIndex(UpperLetters, c) # 0 THEN 64 + LetterIndex(UpperLetters, c)
    ELSE 96 + LetterIndex(LowerLetters, c)

\* str.lower(): the characters of s, lower-cased.
Lower(s) == [i \in 1..Len(Chars(s)) |-> LowerChar(Chars(s)[i])]

\* needle in hay, for character sequences.
Contains(hay, needle) ==
    \E i \in 1..(Len(hay) - Len(needle) + 1) :
        SubSeq(hay, i, i + Len(needle) - 1) = needle

\* a < b for character sequences, compared by code point (SQLite's BINARY
\* collation, and Python's str comparison).
RECURSIVE CharsLess(_, _)
CharsLess(a, b) ==
    IF Len(b) = 0 THEN FALSE
    ELSE IF Len(a) = 0 THEN TRUE
    ELSE IF Ord(a[1]) # Ord(b[1]) THEN Ord(a[1]) < Ord(b[1])
    ELSE CharsLess(Tail(a), Tail(b))

\* str.strip() on a character sequence.
RECURSIVE StripChars(_)
StripChars(cs) ==
    IF Len(cs) = 0 THEN cs
    ELSE IF cs[1] = " " THEN StripChars(Tail(cs))
    ELSE IF cs[Len(cs)] = " " THEN StripChars(SubSeq(cs, 1, Len(cs) - 1))
    ELSE cs

\* text.split(","): the pieces of a character sequence between its commas.
RECURSIVE SplitChars(_)
SplitChars(cs) ==
    IF \A i \in 1..Len(cs) : cs[i] # ","
    THEN <<cs>>
    ELSE LET i == CHOOSE i \in 1..Len(cs) :
                      cs[i] = "," /\ \A j \in 1..(i - 1) : cs[j] # ","
         IN  <<SubSeq(cs, 1, i - 1)>> \o SplitChars(SubSeq(cs, i + 1, Len(cs)))

\* [item for item in items if item]
RECURSIVE NonEmpty(_)
NonEmpty(items) ==
    IF Len(items) = 0 THEN <<>>
    ELSE IF Len(items[1]) = 0 THEN NonEmpty(Tail(items))
    ELSE <<items[1]>> \o NonEmpty(Tail(items))

\* The keys, names and tags of the model, and the string with given characters.
Texts == {"", " ", "alpha", "alpha ", "beta", "Beta", "gamma", "web", "api", "web, api",
          "nebula", "aurora", "lunar", "quasar",
          "Nebula CRM", "Aurora Analytics", "Lunar Ops", "Quasar Docs"}
Text(cs) == CHOOSE t \in Texts : Chars(t) = cs

\* str.strip()
Strip == [t \in Texts |-> Text(StripChars(Chars(t)))]

\* [item.strip() for item in text.split(",") if item.strip()]
SplitTags(text) ==
    LET pieces   == SplitChars(Chars(text))
        stripped == NonEmpty([i \in 1..Len(pieces) |-> StripChars(pieces[i])])
    IN  [i \in 1..Len(stripped) |-> Text(stripped[i])]

\* a < b under SQLite's BINARY collation, for the names of the model.
BinaryLess == [a \in Texts, b \in Texts |-> CharsLess(Chars(a), Chars(b))]

\* a.lower() < b.lower(), for the names of the model.
LowerLess == [a \in Texts, b \in Texts |-> CharsLess(Lower(a), Lower(b))]

\* The status strings of the model and the texts searched in them.
StatusStrings == {"Running", "RUNNING", "Paused", "Stopped", "Failed", "Error", "Ready", ""}
Needles       == {"fail", "error", "running", "paused", "stopped"}

\* sub in status.lower(), for every status string and searched text.
InLower == [s \in StatusStrings, sub \in Needles |-> Contains(Lower(s), Chars(sub))]

\* strftime("%H:%M") of a time in minutes.
Timestamp(t) == <<(t \div 60) % 24, t % 60>>

----------------------------------------------------------------------------
(* _limit *)

\* Limit that keeps the first maximum entries: entries[:maximum].
LimitKeepsFirst(entries, maximum) ==
    IF Len(entries) <= maximum
    THEN entries
    ELSE SubSeq(entries, 1, maximum)

Limit(entries, maximum) ==
    IF Len(entries) <= maximum
    THEN entries
    ELSE SubSeq(entries, Len(entries) - maximum + 1, Len(entries))

----------------------------------------------------------------------------
(* The built-in projects of LaunchService *)

SeedComponent(name, status, summary, detail, logs, health_checks) ==
    [name |-> name, status |-> status, summary |-> summary,
     status_detail |-> <<detail>>, logs |-> logs, health_checks |-> health_checks]

SeedProject(key, name, icon, profile, summary, tags, status, favorite, active, usage_hours, components, quick_links, folders, history, health_checks) ==
    [key |-> key, name |-> name, icon |-> icon,
     default_profile |-> profile, last_profile |-> profile, summary |-> summary,
     tags |-> tags, status |-> status, favorite |-> favorite, active |-> active,
     usage_hours |-> usage_hours,
     components |-> components, quick_links |-> quick_links, folders |-> folders,
     history |-> history, health_checks |-> health_checks,
     created_at |-> NoTime, updated_at |-> NoTime]

\* _SAMPLE_PROJECTS, as Project.from_dict reads them (a log line "[09:40] text"
\* is <<<<9, 40>>, text>>; a history time is <<h, m>> or <<label>>; an icon is
\* the name of its emoji; usage_hours counts tenths of an hour).
SampleProjects ==
    << SeedProject("nebula", "Nebula CRM", "ringed planet", "dev",
           "Customer portal with FastAPI backend and Vue dashboard.",
           <<"fastapi", "postgres", "docker">>, "Ready", TRUE, TRUE, 185,
           << SeedComponent("FastAPI Service", "Running", "Uvicorn server with auto-reload",
                  "HTTP 200 - Port 8000",
                  << <<<<9, 40>>, "Boot sequence started">>,
                     <<<<9, 40>>, "Loaded environment dev">>,
                     <<<<9, 41>>, "Listening on 0.0.0.0:8000">> >>,
                  << [label |-> "HTTP", status |-> "Healthy", detail |-> "200 OK"],
                     [label |-> "Docker", status |-> "Healthy", detail |-> "Container healthy"] >>),
              SeedComponent("Worker Queue", "Running", "Celery worker connected to Redis",
                  "Processing 3 jobs",
                  << <<<<9, 39>>, "Worker online">>,
                     <<<<9, 41>>, "Consumed task send_welcome_email">> >>,
                  << [label |-> "Redis", status |-> "Healthy", detail |-> "Ping 1.2ms"] >>),
              SeedComponent("Frontend Dev Server", "Paused", "Vite dev server for Vue dashboard",
                  "Paused by user",
                  << <<<<8, 12>>, "npm run dev">>,
                     <<<<8, 15>>, "Hot reload triggered">> >>,
                  << [label |-> "HTTP", status |-> "Paused", detail |-> "Server paused"] >>) >>,
           << [label |-> "Swagger Docs", url |-> "http://localhost:8000/docs"],
              [label |-> "Admin Portal", url |-> "http://localhost:5173"] >>,
           << [label |-> "Repository", path |-> "~/Projects/nebula"],
              [label |-> "Docker Compose", path |-> "~/Projects/nebula/ops"] >>,
           << [time |-> <<9, 42>>, description |-> <<"Launch", "dev">>],
              [time |-> <<9, 44>>, description |-> <<"Restart FastAPI">>],
              [time |-> <<9, 50>>, description |-> <<"Teardown frontend">>] >>,
           << [label |-> "API endpoint", status |-> "Healthy", detail |-> "200 OK"],
              [label |-> "Docker compose", status |-> "Healthy", detail |-> "All containers healthy"],
              [label |-> "Port 8000", status |-> "Healthy", detail |-> "Listening"] >>),
       SeedProject("aurora", "Aurora Analytics", "bar chart", "staging",
           "Data pipeline with Node + Vite front-end dashboard.",
           <<"data", "frontend", "vite">>, "Running", FALSE, TRUE, 92,
           << SeedComponent("Ingestion Worker", "Running", "Python ETL job",
                  "Processing feed alpha",
                  << <<<<8, 30>>, "Sync started">>,
                     <<<<8, 45>>, "1234 records processed">> >>,
                  << [label |-> "Database", status |-> "Healthy", detail |-> "Latency 20ms"] >>),
              SeedComponent("Analytics UI", "Running", "Vite dev server",
                  "Listening on 5174",
                  << <<<<8, 12>>, "yarn dev">>,
                     <<<<8, 20>>, "Hot reload">> >>,
                  << [label |-> "HTTP", status |-> "Healthy", detail |-> "200 OK"] >>) >>,
           << [label |-> "Vite Dashboard", url |-> "http://localhost:5174"],
              [label |-> "Grafana", url |-> "http://localhost:3000"] >>,
           << [label |-> "Repository", path |-> "~/Projects/aurora"] >>,
           << [time |-> <<"Yesterday">>, description |-> <<"Deploy staging">>] >>,
           << [label |-> "HTTP 5174", status |-> "Healthy", detail |-> "Dashboard ready"],
              [label |-> "Queue depth", status |-> "Healthy", detail |-> "4 pending"] >>),
       SeedProject("lunar", "Lunar Ops", "last quarter moon", "dev",
           "Dockerized ops toolkit with mixed services.",
           <<"docker", "compose", "ops">>, "Needs Attention", FALSE, FALSE, 34,
           << SeedComponent("API Gateway", "Failed", "Nginx reverse proxy",
                  "Container exited",
                  << <<<<7, 12>>, "nginx start">>,
                     <<<<7, 15>>, "missing certificate">> >>,
                  << [label |-> "Docker", status |-> "Failed", detail |-> "Exited (1)"] >>),
              SeedComponent("Telemetry", "Stopped", "Prometheus instance",
                  "Stopped by user",
                  << <<<<6, 50>>, "Shutdown initiated">> >>,
                  << [label |-> "Port 9090", status |-> "Stopped", detail |-> "Not listening"] >>) >>,
           << [label |-> "Operations Wiki", url |-> "http://confluence.local/lunar"] >>,
           << [label |-> "Repository", path |-> "~/Projects/lunar"],
              [label |-> "Docker", path |-> "~/Projects/lunar/docker"] >>,
           << [time |-> <<"Today">>, description |-> <<"Launch attempt failed">>] >>,
           << [label |-> "Gateway", status |-> "Failed", detail |-> "Container exited"],
              [label |-> "Prometheus", status |-> "Stopped", detail |-> "Inactive"] >>),
       SeedProject("quasar", "Quasar Docs", "books", "dev",
           "Documentation toolchain built with mdBook.",
           <<"docs", "mdbook">>, "Ready", TRUE, FALSE, 68,
           << SeedComponent("mdBook Serve", "Running", "mdbook serve --open",
                  "Listening on :3001",
                  << <<<<8, 1>>, "Rebuild complete">>,
                     <<<<8, 5>>, "Watching files">> >>,
                  << [label |-> "HTTP", status |-> "Healthy", detail |-> "200 OK"] >>) >>,
           << [label |-> "Docs", url |-> "http://localhost:3001"],
              [label |-> "GitHub", url |-> "https://github.com/org/quasar"] >>,
           << [label |-> "Repository", path |-> "~/Projects/quasar"] >>,
           << [time |-> <<"Today">>, description |-> <<"Launch", "dev">>] >>,
           << [label |-> "HTTP", status |-> "Healthy", detail |-> "200 OK"] >>) >>

----------------------------------------------------------------------------
(* Project and LaunchService helpers *)

\* AddHistory that overwrites the last entry of a history that has one.
AddHistoryOverLast(project, description, now) ==
    LET event == [time |-> Timestamp(now), description |-> description]
    IN  [project EXCEPT !.history =
            IF Len(@) = 0 THEN <<event>> ELSE [@ EXCEPT ![Len(@)] = event]]

\* Project.add_history with timestamp=None.
AddHistory(project, description, now) ==
    [project EXCEPT !.history =
        Append(@, [time |-> Timestamp(now), description |-> description])]

\* Project.touch
Touch(project, now) == [project EXCEPT !.updated_at = now]

\* LaunchService._set_component_status
SetComponentStatus(component, status, detail, now) ==
    [component EXCEPT
        !.status = status,
        !.status_detail = detail,
        !.logs = Limit(Append(@, <<Timestamp(now), status, detail>>), MaxEntries)]

\* LaunchService._set_component_running
SetComponentRunning(component, context, now) ==
    SetComponentStatus(component, "Running", context, now)

\* LaunchService._find_component: the index of the first component called
\* component_name, 0 for None.
FindComponent(project, component_name) ==
    LET hits == {i \in 1..Len(project.components) :
                    project.components[i].name = component_name}
    IN  IF hits = {} THEN 0 ELSE CHOOSE i \in hits : \A j \in hits : i <= j

\* DeriveStatus with the "running" test made before the "fail" / "error" test.
DeriveStatusRunningFirst(sts) ==
    LET any(sub) == \E i \in 1..Len(sts) : InLower[sts[i], sub]
        all(sub) == \A i \in 1..Len(sts) : InLower[sts[i], sub]
    IN  IF Len(sts) = 0 THEN "Ready"
        ELSE IF any("running") THEN "Running"
        ELSE IF any("fail") \/ any("error") THEN "Needs Attention"
        ELSE IF any("paused") THEN "Paused"
        ELSE IF all("stopped") THEN "Stopped"
        ELSE "Ready"

\* The body of LaunchService._derive_project_status, on the list of statuses.
DeriveStatus(sts) ==
    LET any(sub) == \E i \in 1..Len(sts) : InLower[sts[i], sub]
        all(sub) == \A i \in 1..Len(sts) : InLower[sts[i], sub]
    IN  IF Len(sts) = 0 THEN "Ready"
        ELSE IF any("fail") \/ any("error") THEN "Needs Attention"
        ELSE IF any("running") THEN "Running"
        ELSE IF any("paused") THEN "Paused"
        ELSE IF all("stopped") THEN "Stopped"
        ELSE "Ready"

\* LaunchService._derive_project_status
DeriveProjectStatus(project) ==
    DeriveStatus([i \in 1..Len(project.components) |-> project.components[i].status])

\* FinaliseProjectUpdate that keeps "Needs Attention" once a project has it.
FinaliseStickyAttention(project, now) ==
    LET status == IF project.status = "Needs Attention"
                  THEN "Needs Attention"
                  ELSE DeriveProjectStatus(project)
    IN  Touch([project EXCEPT !.status = status,
                              !.active = (status \in {"Running", "Paused"})], now)

\* FinaliseProjectUpdate without the assignment to active.
FinaliseKeepsActive(project, now) ==
    Touch([project EXCEPT !.status = DeriveProjectStatus(project)], now)

\* LaunchService._finalise_project_update
FinaliseProjectUpdate(project, now) ==
    LET status == DeriveProjectStatus(project)
    IN  Touch([project EXCEPT !.status = status,
                              !.active = (status \in {"Running", "Paused"})], now)

\* LaunchService._load_initial_state at time now.
LoadInitialState(now) ==
    LET keys == {SampleProjects[i].key : i \in 1..Len(SampleProjects)}
        payload(k) == SampleProjects[CHOOSE i \in 1..Len(SampleProjects) :
                                        SampleProjects[i].key = k]
    IN  [k \in keys |->
            FinaliseProjectUpdate(
                [payload(k) EXCEPT !.created_at = now, !.updated_at = now], now)]

----------------------------------------------------------------------------
(* LaunchService: the operations on one project *)

\* LaunchedProject that starts only the components that have not failed.
LaunchedSkipsFailed(project, profile, now) ==
    LET active_profile ==
            IF profile # "" THEN profile
            ELSE IF project.last_profile # "" THEN project.last_profile
            ELSE project.default_profile
        started == [i \in 1..Len(project.components) |->
                       IF project.components[i].status = "Failed"
                       THEN project.components[i]
                       ELSE SetComponentRunning(project.components[i],
                                                <<"Launch profile", active_profile>>, now)]
    IN  FinaliseProjectUpdate(
            AddHistory([project EXCEPT !.components = started,
                                       !.last_profile = active_profile],
                       <<"Launch", active_profile>>, now),
            now)

\* LaunchedProject that falls back to default_profile, never to last_profile.
LaunchedIgnoresLastProfile(project, profile, now) ==
    LET active_profile == IF profile # "" THEN profile ELSE project.default_profile
        started == [i \in 1..Len(project.components) |->
                       SetComponentRunning(project.components[i],
                                           <<"Launch profile", active_profile>>, now)]
    IN  FinaliseProjectUpdate(
            AddHistory([project EXCEPT !.components = started,
                                       !.last_profile = active_profile],
                       <<"Launch", active_profile>>, now),
            now)

\* launch_project, lines 72-77: the project after the launch.
LaunchedProject(project, profile, now) ==
    LET active_profile ==
            IF profile # "" THEN profile
            ELSE IF project.last_profile # "" THEN project.last_profile
            ELSE project.default_profile
        started == [i \in 1..Len(project.components) |->
                       SetComponentRunning(project.components[i],
                                           <<"Launch profile", active_profile>>, now)]
    IN  FinaliseProjectUpdate(
            AddHistory([project EXCEPT !.components = started,
                                       !.last_profile = active_profile],
                       <<"Launch", active_profile>>, now),
            now)

\* ActedProject with a guard: resume acts only on a paused component.
ActedGuardedResume(project, i, action, now) ==
    LET component == project.components[i]
        changed ==
            CASE action = "start"  -> SetComponentRunning(component, <<"Manual start">>, now)
              [] action = "stop"   -> SetComponentStatus(component, "Stopped",
                                                         <<"Stopped via LaunchPad">>, now)
              [] action = "pause"  -> SetComponentStatus(component, "Paused",
                                                         <<"Paused via LaunchPad">>, now)
              [] action = "resume" -> IF component.status = "Paused"
                                      THEN SetComponentRunning(component, <<"Resume">>, now)
                                      ELSE component
        verb ==
            CASE action = "start"  -> "Start"
              [] action = "stop"   -> "Stop"
              [] action = "pause"  -> "Pause"
              [] action = "resume" -> "Resume"
    IN  FinaliseProjectUpdate(
            AddHistory([project EXCEPT !.components[i] = changed],
                       <<verb, changed.name>>, now),
            now)

\* ActedProject that writes the log line to every component of the project.
ActedLogsEveryComponent(project, i, action, now) ==
    LET status == IF action = "stop" THEN "Stopped"
                  ELSE IF action = "pause" THEN "Paused" ELSE "Running"
        detail == CASE action = "start"  -> <<"Manual start">>
                    [] action = "stop"   -> <<"Stopped via LaunchPad">>
                    [] action = "pause"  -> <<"Paused via LaunchPad">>
                    [] action = "resume" -> <<"Resume">>
        verb   == CASE action = "start"  -> "Start"
                    [] action = "stop"   -> "Stop"
                    [] action = "pause"  -> "Pause"
                    [] action = "resume" -> "Resume"
        logged == [j \in 1..Len(project.components) |->
                      IF j = i
                      THEN SetComponentStatus(project.components[j], status, detail, now)
                      ELSE [project.components[j] EXCEPT
                               !.logs = Append(@, <<Timestamp(now), status, detail>>)]]
    IN  FinaliseProjectUpdate(
            AddHistory([project EXCEPT !.components = logged],
                       <<verb, project.components[i].name>>, now),
            now)

\* _component_action, lines 119-134, on the component at index i:
\* the project after "start", "stop", "pause" or "resume".
ActedProject(project, i, action, now) ==
    LET component == project.components[i]
        changed ==
            CASE action = "start"  -> SetComponentRunning(component, <<"Manual start">>, now)
              [] action = "stop"   -> SetComponentStatus(component, "Stopped",
                                                         <<"Stopped via LaunchPad">>, now)
              [] action = "pause"  -> SetComponentStatus(component, "Paused",
                                                         <<"Paused via LaunchPad">>, now)
              [] action = "resume" -> SetComponentRunning(component, <<"Resume">>, now)
        verb ==
            CASE action = "start"  -> "Start"
              [] action = "stop"   -> "Stop"
              [] action = "pause"  -> "Pause"
              [] action = "resume" -> "Resume"
    IN  FinaliseProjectUpdate(
            AddHistory([project EXCEPT !.components[i] = changed],
                       <<verb, changed.name>>, now),
            now)

Actions == {"start", "stop", "pause", "resume"}

\* LaunchService._projects after launch_project(project_key, profile).
AfterLaunch(held, project_key, profile, now) ==
    IF project_key \notin DOMAIN held
    THEN held
    ELSE [held EXCEPT ![project_key] = LaunchedProject(@, profile, now)]

\* AfterComponentAction without the final else: an unknown action falls through
\* to _finalise_project_update.
AfterActionFallsThrough(held, project_key, component_name, action, now) ==
    IF project_key \notin DOMAIN held
    THEN held
    ELSE LET i == FindComponent(held[project_key], component_name)
         IN  IF i = 0
             THEN held
             ELSE IF action \notin {"start", "stop", "pause", "resume"}
             THEN [held EXCEPT ![project_key] = FinaliseProjectUpdate(@, now)]
             ELSE [held EXCEPT ![project_key] = ActedProject(@, i, action, now)]

\* LaunchService._projects after _component_action(project_key, component_name, action).
AfterComponentAction(held, project_key, component_name, action, now) ==
    IF project_key \notin DOMAIN held
    THEN held
    ELSE LET i == FindComponent(held[project_key], component_name)
         IN  IF i = 0 \/ action \notin Actions
             THEN held
             ELSE [held EXCEPT ![project_key] = ActedProject(@, i, action, now)]

----------------------------------------------------------------------------
(* Project: serialisation *)

\* datetime.isoformat and datetime.fromisoformat
IsoFormat(t) == <<"iso", t>>
FromIsoFormat(text) == text[2]

\* payload.get(key, default)
Get(payload, key, default) ==
    IF key \in DOMAIN payload THEN payload[key] ELSE default

\* HealthCheck.to_dict and HealthCheck.from_dict
HealthCheckToDict(check) ==
    [label |-> check.label, status |-> check.status, detail |-> check.detail]
HealthCheckFromDict(payload) ==
    [label |-> Get(payload, "label", ""), status |-> Get(payload, "status", ""),
     detail |-> Get(payload, "detail", "")]

\* QuickLink.to_dict and QuickLink.from_dict
QuickLinkToDict(link) == [label |-> link.label, url |-> link.url]
QuickLinkFromDict(payload) ==
    [label |-> Get(payload, "label", ""), url |-> Get(payload, "url", "")]

\* FolderLink.to_dict and FolderLink.from_dict
FolderLinkToDict(folder) == [label |-> folder.label, path |-> folder.path]
FolderLinkFromDict(payload) ==
    [label |-> Get(payload, "label", ""), path |-> Get(payload, "path", "")]

\* HistoryEvent.to_dict and HistoryEvent.from_dict
HistoryEventToDict(event) == [time |-> event.time, description |-> event.description]
HistoryEventFromDict(payload) ==
    [time |-> Get(payload, "time", ""), description |-> Get(payload, "description", "")]

\* Component.to_dict
ComponentToDict(component) ==
    [name |-> component.name, status |-> component.status,
     summary |-> component.summary, statusDetail |-> component.status_detail,
     logs |-> component.logs,
     healthChecks |-> [i \in 1..Len(component.health_checks) |->
                          HealthCheckToDict(component.health_checks[i])]]

\* ComponentFromDict that reads no health checks.
ComponentFromDictNoHealth(payload) ==
    [name |-> Get(payload, "name", ""), status |-> Get(payload, "status", ""),
     summary |-> Get(payload, "summary", ""),
     status_detail |-> Get(payload, "statusDetail", Get(payload, "status_detail", "")),
     logs |-> Get(payload, "logs", <<>>),
     health_checks |-> <<>>]

\* Component.from_dict, for a payload whose logs and healthChecks are lists.
ComponentFromDict(payload) ==
    LET health_data == Get(payload, "healthChecks", <<>>)
    IN  [name |-> Get(payload, "name", ""), status |-> Get(payload, "status", ""),
         summary |-> Get(payload, "summary", ""),
         status_detail |-> Get(payload, "statusDetail", Get(payload, "status_detail", "")),
         logs |-> Get(payload, "logs", <<>>),
         health_checks |-> [i \in 1..Len(health_data) |->
                               HealthCheckFromDict(health_data[i])]]

\* Project.to_dict: createdAt / updatedAt are keys of the payload only when set.
ToDict(project) ==
    LET payload ==
            [key |-> project.key, name |-> project.name, icon |-> project.icon,
             defaultProfile |-> project.default_profile,
             lastProfile |-> project.last_profile, summary |-> project.summary,
             tags |-> project.tags, status |-> project.status,
             favorite |-> project.favorite, active |-> project.active,
             usageHours |-> project.usage_hours,
             components |-> [i \in 1..Len(project.components) |->
                                ComponentToDict(project.components[i])],
             quickLinks |-> [i \in 1..Len(project.quick_links) |->
                                QuickLinkToDict(project.quick_links[i])],
             folders |-> [i \in 1..Len(project.folders) |->
                             FolderLinkToDict(project.folders[i])],
             history |-> [i \in 1..Len(project.history) |->
                             HistoryEventToDict(project.history[i])],
             healthChecks |-> [i \in 1..Len(project.health_checks) |->
                                  HealthCheckToDict(project.health_checks[i])]]
        created == IF project.created_at # NoTime
                   THEN "createdAt" :> IsoFormat(project.created_at)
                   ELSE [x \in {} |-> x]
        updated == IF project.updated_at # NoTime
                   THEN "updatedAt" :> IsoFormat(project.updated_at)
                   ELSE [x \in {} |-> x]
    IN  payload @@ created @@ updated

\* Project.from_dict, with Project.__post_init__, for a payload whose
\* collections are lists of mappings: a missing lastProfile is the default
\* profile.
FromDict(payload) ==
    LET default_profile ==
            Get(payload, "defaultProfile", Get(payload, "default_profile", "dev"))
        components_raw    == Get(payload, "components", <<>>)
        quick_links_raw   == Get(payload, "quickLinks", <<>>)
        folders_raw       == Get(payload, "folders", <<>>)
        history_raw       == Get(payload, "history", <<>>)
        health_checks_raw == Get(payload, "healthChecks", <<>>)
    IN  [key |-> Get(payload, "key", ""), name |-> Get(payload, "name", ""),
         icon |-> Get(payload, "icon", "folder"),
         default_profile |-> default_profile,
         last_profile |-> Get(payload, "lastProfile",
                              Get(payload, "last_profile", default_profile)),
         summary |-> Get(payload, "summary", ""),
         tags |-> Get(payload, "tags", <<>>),
         status |-> Get(payload, "status", "Ready"),
         favorite |-> Get(payload, "favorite", FALSE),
         active |-> Get(payload, "active", FALSE),
         usage_hours |-> Get(payload, "usageHours", Get(payload, "usage_hours", 0)),
         components |-> [i \in 1..Len(components_raw) |->
                            ComponentFromDict(components_raw[i])],
         quick_links |-> [i \in 1..Len(quick_links_raw) |->
                             QuickLinkFromDict(quick_links_raw[i])],
         folders |-> [i \in 1..Len(folders_raw) |->
                         FolderLinkFromDict(folders_raw[i])],
         history |-> [i \in 1..Len(history_raw) |->
                         HistoryEventFromDict(history_raw[i])],
         health_checks |-> [i \in 1..Len(health_checks_raw) |->
                               HealthCheckFromDict(health_checks_raw[i])],
         created_at |-> IF "createdAt" \in DOMAIN payload
                        THEN FromIsoFormat(payload.createdAt) ELSE NoTime,
         updated_at |-> IF "updatedAt" \in DOMAIN payload
                        THEN FromIsoFormat(payload.updatedAt) ELSE NoTime]

\* Project.tags_as_text: ", ".join(tags), as the parts of the joined text.
RECURSIVE TagsAsText(_)
TagsAsText(tags) ==
    IF Len(tags) = 0 THEN <<>>
    ELSE IF Len(tags) = 1 THEN <<tags[1]>>
    ELSE <<tags[1], ", ">> \o TagsAsText(Tail(tags))

\* Project.to_overview
ToOverview(project) ==
    [key |-> project.key, name |-> project.name, icon |-> project.icon,
     lastProfile |-> project.last_profile, tags |-> TagsAsText(project.tags),
     status |-> project.status, favorite |-> project.favorite,
     active |-> project.active, usageHours |-> project.usage_hours]

\* _result_payload: {"project": to_dict(), ...}; Empty is {}.
Empty == [kind |-> "empty"]
ResultPayload(project) == [kind |-> "payload", project |-> ToDict(project)]

----------------------------------------------------------------------------
(* ProjectDatabase *)

\* json.dumps(payload, sort_keys=True) and json.loads
JsonDumps(payload) == <<"json", payload>>
JsonLoads(text) == text[2]

NoProject == [kind |-> "none"]

\* _row_to_project
RowToProject(row) == FromDict(JsonLoads(row.data))

\* get_project: the project read from the row's data column, or None.
GetProject(rows, key) ==
    IF key \in DOMAIN rows THEN RowToProject(rows[key]) ELSE NoProject

\* StampedProject that sets created_at on every upsert.
StampedAlwaysNow(rows, project, now) ==
    [project EXCEPT !.created_at = now, !.updated_at = now]

\* upsert_project, lines 125-129: the passed object after the timestamps are set.
StampedProject(rows, project, now) ==
    LET existing == GetProject(rows, project.key)
        created  == IF project.created_at = NoTime
                    THEN (IF existing # NoProject THEN existing.created_at ELSE now)
                    ELSE project.created_at
    IN  [project EXCEPT !.created_at = created, !.updated_at = now]

\* The values of the INSERT, lines 153-168.
RowValues(project) ==
    [key |-> project.key, name |-> project.name, icon |-> project.icon,
     default_profile |-> project.default_profile,
     last_profile |-> project.last_profile, summary |-> project.summary,
     tags |-> TagsAsText(project.tags), status |-> project.status,
     favorite |-> IF project.favorite THEN 1 ELSE 0,
     active |-> IF project.active THEN 1 ELSE 0,
     usage_hours |-> project.usage_hours,
     data |-> JsonDumps(ToDict(project)),
     created_at |-> IsoFormat(project.created_at),
     updated_at |-> IsoFormat(project.updated_at)]

\* INSERT ... ON CONFLICT(key) DO UPDATE SET, lines 133-152: a new row takes
\* every value; an existing row takes every value but key and created_at.
UpsertRow(rows, project) ==
    LET new == RowValues(project)
    IN  IF project.key \in DOMAIN rows
        THEN [rows EXCEPT ![project.key] =
                 [new EXCEPT !.created_at = rows[project.key].created_at]]
        ELSE [k \in DOMAIN rows \cup {project.key} |->
                 IF k = project.key THEN new ELSE rows[k]]

\* DeleteRow without the WHERE clause.
DeleteRowNoWhere(rows, key) ==
    IF key \in DOMAIN rows THEN [k \in {} |-> k] ELSE rows

\* DELETE FROM projects WHERE key = ?
DeleteRow(rows, key) == [k \in DOMAIN rows \ {key} |-> rows[k]]

\* Where a write may fail: not at all, in txn.execute, or in conn.commit.
Failures == {"none", "execute", "commit"}
Raised   == [kind |-> "raised"]

\* The outcomes of the upsert inside a helper: a failure in execute and one in
\* commit leave the same rows.
HelperFailures == {"none", "commit"}

\* A returned bool.
Bool(value) == [kind |-> "bool", value |-> value]

\* Transaction without the rollback in the except clause.
TransactionNoRollback(rows, written, failure) ==
    IF failure = "execute" THEN rows ELSE written

\* ProjectDatabase.transaction around one statement that turns rows into
\* written: what the connection holds after the with block.  A statement that
\* raises changes nothing; a commit that raises leaves the statement's effect
\* pending until the rollback.
Transaction(rows, written, failure) ==
    LET pending == IF failure = "execute" THEN rows ELSE written
    IN  IF failure = "none" THEN pending ELSE rows

\* upsert_project(project) at time now: the rows afterwards, the passed object
\* afterwards, and whether the call raised.
UpsertProject(rows, project, now, failure) ==
    LET stamped == StampedProject(rows, project, now)
    IN  [rows    |-> Transaction(rows, UpsertRow(rows, stamped), failure),
         project |-> stamped,
         raised  |-> failure # "none"]

\* The rank of row key in ORDER BY name ASC (BINARY collation); rows with the
\* same name are taken in key order.
NameRank(rows, key) ==
    1 + Cardinality({k \in DOMAIN rows \ {key} :
            \/ BinaryLess[rows[k].name, rows[key].name]
            \/ rows[k].name = rows[key].name /\ BinaryLess[k, key]})

\* list_projects
ListProjects(rows) ==
    [i \in 1..Cardinality(DOMAIN rows) |->
        RowToProject(rows[CHOOSE k \in DOMAIN rows : NameRank(rows, k) = i])]

\* ReadModifyWrite that returns the changed project without the upsert.
ReadModifyWriteNoUpsert(rows, key, changed, now, failure) ==
    IF GetProject(rows, key) = NoProject
    THEN [rows |-> rows, result |-> NoProject]
    ELSE [rows |-> rows, result |-> changed]

\* ProjectDatabase.set_favorite / update_last_profile / record_history: get the
\* project, change it (changed is the project read, with the change), upsert
\* it.  The rows afterwards and the result.
ReadModifyWrite(rows, key, changed, now, failure) ==
    IF GetProject(rows, key) = NoProject
    THEN [rows |-> rows, result |-> NoProject]
    ELSE LET done == UpsertProject(rows, changed, now, failure)
         IN  [rows |-> done.rows,
              result |-> IF done.raised THEN Raised ELSE done.project]

\* UpsertEach in one transaction for the whole batch.
UpsertEachInOneTransaction(rows, items, now, failAt) ==
    LET Stamp(project) == [project EXCEPT
                              !.created_at = IF @ = NoTime THEN now ELSE @,
                              !.updated_at = now]
    IN  [rows |-> rows,
         projects |-> [j \in 1..Len(items) |->
                          IF failAt = 0 \/ j <= failAt
                          THEN Stamp(items[j]) ELSE items[j]],
         raised |-> TRUE]

\* bulk_import: the loop over projects, where the upsert of item failAt raises
\* (failAt = 0: none does).  The rows and the objects afterwards, and the
\* number of upserts that returned.
RECURSIVE UpsertEach(_, _, _, _)
UpsertEach(rows, items, now, failAt) ==
    IF Len(items) = 0
    THEN [rows |-> rows, projects |-> <<>>, raised |-> FALSE]
    ELSE LET done == UpsertProject(rows, items[1], now,
                                   IF failAt = 1 THEN "commit" ELSE "none")
         IN  IF done.raised
             THEN [rows |-> done.rows,
                   projects |-> <<done.project>> \o Tail(items),
                   raised |-> TRUE]
             ELSE LET rest == UpsertEach(done.rows, Tail(items), now,
                                         IF failAt = 0 THEN 0 ELSE failAt - 1)
                  IN  [rows |-> rest.rows,
                       projects |-> <<done.project>> \o rest.projects,
                       raised |-> rest.raised]

----------------------------------------------------------------------------
(* ProjectStore and its list model (src/backend/src/gui/project_store.py) *)

\* _INITIAL_PROJECTS, as Project.from_dict reads them: the same four payloads
\* as _SAMPLE_PROJECTS.
InitialProjects == SampleProjects

\* value or default, for strings
Or(value, default) == IF value = "" THEN default ELSE value

\* _split_tags of a list of strings: the items that are not blank, unstripped.
SplitTagList(value) == SelectSeq(value, LAMBDA item : Strip[item] # "")

ValueError == [kind |-> "ValueError"]

\* A ProjectStore or ProjectListModel that is not constructed.
NotBuilt == [built |-> FALSE]

\* _project_from_summary: the project, or ValueError when the stripped key or
\* name is empty.  The tags of a summary are a list here.
ProjectFromSummary(summary) ==
    LET key  == Strip[Get(summary, "key", "")]
        name == Strip[Get(summary, "name", "")]
        default_profile == Or(Get(summary, "defaultProfile", "dev"), "dev")
    IN  IF key = "" \/ name = "" THEN ValueError
        ELSE FromDict(
               [key |-> key, name |-> name,
                icon |-> Or(Get(summary, "icon", "folder"), "folder"),
                defaultProfile |-> default_profile,
                lastProfile |-> Or(Get(summary, "lastProfile", default_profile),
                                   default_profile),
                summary |-> Get(summary, "description", Get(summary, "summary", "")),
                tags |-> SplitTagList(Get(summary, "tags", <<>>)),
                status |-> Or(Get(summary, "status", "Ready"), "Ready"),
                favorite |-> Get(summary, "favorite", FALSE),
                active |-> Get(summary, "active", FALSE),
                usageHours |-> Get(summary, "usageHours", 0),
                components |-> Get(summary, "components", <<>>),
                quickLinks |-> Get(summary, "quickLinks", <<>>),
                folders |-> Get(summary, "folders", <<>>),
                history |-> Get(summary, "history", <<>>),
                healthChecks |-> Get(summary, "healthChecks", <<>>)])

\* {project.key: project.to_dict() for project in projects}
Details(held) ==
    [k \in {held[i].key : i \in DOMAIN held} |->
        LET last_row == CHOOSE i \in DOMAIN held :
                /\ held[i].key = k
                /\ \A j \in DOMAIN held : held[j].key = k => j <= i
        IN  ToDict(held[last_row])]

\* _update_tag_options: the tags of every project of the model (the sorted
\* list, as the set of its items).
TagOptions(held) ==
    UNION {{held[i].tags[j] : j \in DOMAIN held[i].tags} : i \in DOMAIN held}

\* ProjectListModel.replace followed by the rest of _load_initial_projects:
\* the store that shows the given projects.
ShownStore(held) ==
    [built |-> TRUE, projects |-> held,
     overview |-> [i \in DOMAIN held |-> ToOverview(held[i])],
     details |-> Details(held), tag_options |-> TagOptions(held)]

\* LoadInitialProjects that seeds whenever a built-in project is not stored.
LoadSeedsMissing(rows, now, failAt) ==
    LET done == UpsertEach(rows, InitialProjects, now, failAt)
    IN  IF \A i \in DOMAIN InitialProjects : InitialProjects[i].key \in DOMAIN rows
        THEN [rows |-> rows, store |-> ShownStore(ListProjects(rows)),
              raised |-> FALSE]
        ELSE [rows |-> done.rows,
              store |-> IF done.raised THEN NotBuilt ELSE ShownStore(done.projects),
              raised |-> done.raised]

\* ProjectStore.__init__ with _load_initial_projects: the built-in projects are
\* upserted one by one when list_projects() is empty (the upsert of item
\* failAt raises and ends the constructor; failAt = 0: none does).
LoadInitialProjects(rows, now, failAt) ==
    LET listed == ListProjects(rows)
        done   == UpsertEach(rows, InitialProjects, now, failAt)
    IN  IF Len(listed) # 0
        THEN [rows |-> rows, store |-> ShownStore(listed), raised |-> FALSE]
        ELSE [rows |-> done.rows,
              store |-> IF done.raised THEN NotBuilt ELSE ShownStore(done.projects),
              raised |-> done.raised]

\* ProjectListModel.add_or_update: the project replaces the row of its key or
\* is appended.
AddOrUpdate(st, project) ==
    IF \E i \in DOMAIN st.projects : st.projects[i].key = project.key
    THEN LET row == CHOOSE i \in DOMAIN st.projects : st.projects[i].key = project.key
         IN  [st EXCEPT !.projects[row] = project,
                        !.overview[row] = ToOverview(project)]
    ELSE [st EXCEPT !.projects = Append(@, project),
                    !.overview = Append(@, ToOverview(project))]

\* create_from_summary: the rows and the store afterwards, and what the call
\* returned.
CreateFromSummary(rows, st, summary, now, failure) ==
    LET project == ProjectFromSummary(summary)
        done    == UpsertProject(rows, project, now, failure)
        added   == AddOrUpdate(st, done.project)
    IN  IF project = ValueError
        THEN [rows |-> rows, store |-> st, result |-> Bool(FALSE)]
        ELSE IF done.raised
        THEN [rows |-> done.rows, store |-> st, result |-> Raised]
        ELSE [rows |-> done.rows,
              store |-> [added EXCEPT
                            !.details = (done.project.key :> ToDict(done.project)) @@ @,
                            !.tag_options = TagOptions(added.projects)],
              result |-> Bool(TRUE)]

\* The roles ProjectStore's list model edits and the field each one sets.
StoreRoles == {"favorite", "active", "lastProfile", "status", "usageHours"}
RoleField(role) ==
    CASE role = "lastProfile" -> "last_profile"
      [] role = "usageHours"  -> "usage_hours"
      [] OTHER                -> role

\* ProjectListModel.setData of ProjectStore's model, with on_project_updated
\* (rows count from 1 here).  The project is changed and its overview replaced
\* before the upsert; the details follow the upsert.
StoreSetData(rows, st, row, role, value, now, failure) ==
    IF row < 1 \/ row > Len(st.projects) \/ role \notin StoreRoles
    THEN [rows |-> rows, store |-> st, result |-> Bool(FALSE)]
    ELSE IF st.projects[row][RoleField(role)] = value
    THEN [rows |-> rows, store |-> st, result |-> Bool(FALSE)]
    ELSE LET edited == [st.projects[row] EXCEPT ![RoleField(role)] = value]
             done   == UpsertProject(rows, edited, now, failure)
             shown  == [st EXCEPT !.projects[row] = done.project,
                                  !.overview[row] = ToOverview(edited)]
         IN  IF done.raised
             THEN [rows |-> done.rows, store |-> shown, result |-> Raised]
             ELSE [rows |-> done.rows,
                   store |-> [shown EXCEPT !.details =
                                 (done.project.key :> ToDict(done.project)) @@ @],
                   result |-> Bool(TRUE)]

----------------------------------------------------------------------------
(* ProjectListModel (src/src/gui/project_list_model.py) *)

ListRoles == {"key", "name", "icon", "lastProfile", "tags", "status",
              "favorite", "active", "usageHours"}

\* setData, lines 96-146: the project after the edit (the same project when
\* the role's test finds nothing to change).
Edited(project, role, value) ==
    CASE role = "key"  -> IF value # "" THEN [project EXCEPT !.key = value] ELSE project
      [] role = "tags" -> [project EXCEPT !.tags = SplitTags(value)]
      [] OTHER         -> [project EXCEPT ![RoleField(role)] = value]

\* setData (rows count from 1 here): the project is changed before the upsert.
ListSetData(rows, lm, row, role, value, now, failure) ==
    IF row < 1 \/ row > Len(lm.projects) \/ role \notin ListRoles
    THEN [rows |-> rows, model |-> lm, result |-> Bool(FALSE)]
    ELSE IF Edited(lm.projects[row], role, value) = lm.projects[row]
    THEN [rows |-> rows, model |-> lm, result |-> Bool(FALSE)]
    ELSE LET done == UpsertProject(rows, Edited(lm.projects[row], role, value),
                                   now, failure)
         IN  [rows |-> done.rows,
              model |-> [lm EXCEPT !.projects[row] = done.project],
              result |-> IF done.raised THEN Raised ELSE Bool(TRUE)]

\* refresh
Refreshed(rows) == [built |-> TRUE, projects |-> ListProjects(rows)]

NoPayload == [kind |-> "None"]

\* addProject: a description fills an empty summary, Project.from_dict reads
\* the payload, the project is upserted and the model refreshed.
AddProject(rows, lm, payload, now, failure) ==
    LET description == Get(payload, "description", "")
        data == IF description # "" /\ Get(payload, "summary", "") = ""
                THEN ("summary" :> description) @@ payload
                ELSE payload
        done == UpsertProject(rows, FromDict(data), now, failure)
    IN  IF payload = NoPayload
        THEN [rows |-> rows, model |-> lm, result |-> Bool(FALSE)]
        ELSE [rows |-> done.rows,
              model |-> IF done.raised THEN lm ELSE Refreshed(done.rows),
              result |-> IF done.raised THEN Raised ELSE Bool(TRUE)]

----------------------------------------------------------------------------
(* Inputs *)

KeyInputs     == {"lunar", "quasar", "ghost"}   \* "ghost" is no project's key
LongKeyInputs == {"lunar", "ghost"}
ProfileInputs == {"", "prod"}
StatusInputs  == StatusStrings
DbKeys        == {"alpha", "beta"}
EntIds        == 1..MaxEnts

\* The component names a caller passes for project_key: its components' names
\* and one name no project has.
NameInputs(project_key) ==
    {"nope"} \cup
    (IF project_key \in DOMAIN projects
     THEN {projects[project_key].components[i].name :
              i \in 1..Len(projects[project_key].components)}
     ELSE {})

SeqsUpTo(S, n) == UNION {[1..k -> S] : k \in 0..n}

\* The held objects handed to bulk_import: up to MaxImport objects, in the
\* order in which they are held.
ImportInputs ==
    {[j \in 1..n |-> i + j - 1] : i \in EntIds, n \in 1..MaxImport} \cap
        SeqsUpTo(EntIds, MaxImport)


\* Project(key=key, name=..., created_at=created) with the dataclass defaults;
\* the name is the key, capitalised for "beta".
NewProject(key, created) ==
    [key |-> key, name |-> IF key = "beta" THEN "Beta" ELSE key, icon |-> "folder",
     default_profile |-> "dev", last_profile |-> "dev", summary |-> "",
     tags |-> <<>>, status |-> "Ready", favorite |-> FALSE, active |-> FALSE,
     usage_hours |-> 0,
     components |-> <<>>, quick_links |-> <<>>, folders |-> <<>>,
     history |-> <<>>, health_checks |-> <<>>,
     created_at |-> created, updated_at |-> NoTime]

\* The Project a caller holds as object i at the start: two objects for each
\* key, the first without a created_at and the second with one.
HeldProject(i) ==
    NewProject(IF i % 4 \in {1, 2} THEN "alpha" ELSE "beta",
               IF i % 2 = 1 THEN NoTime ELSE 0)

NoRows  == [k \in {} |-> k]
NotUpserted == [n |-> 0, created_at |-> NoTime, updated_at |-> NoTime]

----------------------------------------------------------------------------
(* LaunchService *)

NoCall     == [op |-> "none", result |-> Empty]
DeriveIdle == statuses = <<>> /\ derived = "none"
DbIdle     == db = NoRows /\ ents = <<>> /\ dbret = NoCall /\ firstUp = <<>>
LaunchIdle == projects = NoRows /\ last = NoCall /\ warmed = 0
GuiIdle    == store = NotBuilt /\ listModel = NotBuilt /\ guiret = NoCall
CodecIdle  == subject = NoProject /\ outcome = NoCall

\* LaunchService.__init__
Init ==
    /\ clock = 0
    /\ steps = 0
    /\ warmed = 0
    /\ projects = LoadInitialState(0)
    /\ last = NoCall
    /\ DeriveIdle
    /\ DbIdle
    /\ GuiIdle
    /\ CodecIdle

\* Time passes between two calls.
Tick ==
    /\ clock < MaxClock
    /\ clock' = clock + 1
    /\ UNCHANGED <<steps, launchVars, deriveVars, dbVars, guiVars, codecVars>>

launch_project(project_key, profile) ==
    /\ steps < MaxSteps
    /\ steps' = steps + 1
    /\ projects' = AfterLaunch(projects, project_key, profile, clock)
    /\ last' = [op |-> "launch_project",
                result |-> IF project_key \in DOMAIN projects
                           THEN ResultPayload(projects'[project_key])
                           ELSE Empty]
    /\ UNCHANGED <<clock, warmed, deriveVars, dbVars, guiVars, codecVars>>

\* The effect of _component_action on the service.
ComponentCall(project_key, component_name, action) ==
    /\ projects' = AfterComponentAction(projects, project_key, component_name,
                                        action, clock)
    /\ last' = [op |-> "component_action",
                result |-> IF /\ project_key \in DOMAIN projects
                              /\ FindComponent(projects[project_key], component_name) # 0
                              /\ action \in Actions
                           THEN ResultPayload(projects'[project_key])
                           ELSE Empty]
    /\ UNCHANGED <<clock, deriveVars, dbVars, guiVars, codecVars>>

\* _component_action
component_action(project_key, component_name, action) ==
    /\ steps < MaxSteps
    /\ steps' = steps + 1
    /\ UNCHANGED warmed
    /\ ComponentCall(project_key, component_name, action)

start_component(project_key, component_name) ==
    component_action(project_key, component_name, "start")

stop_component(project_key, component_name) ==
    component_action(project_key, component_name, "stop")

pause_component(project_key, component_name) ==
    component_action(project_key, component_name, "pause")

resume_component(project_key, component_name) ==
    component_action(project_key, component_name, "resume")

\* The calls with a project key among keys.
Calls(keys) ==
    \/ \E k \in keys, p \in ProfileInputs : launch_project(k, p)
    \/ \E k \in keys : \E n \in NameInputs(k) : start_component(k, n)
    \/ \E k \in keys : \E n \in NameInputs(k) : stop_component(k, n)
    \/ \E k \in keys : \E n \in NameInputs(k) : pause_component(k, n)
    \/ \E k \in keys : \E n \in NameInputs(k) : resume_component(k, n)
    \/ \E k \in keys : \E n \in NameInputs(k) : component_action(k, n, "restart")

Next == Tick \/ Calls(KeyInputs)

\* One of the earlier calls of a long-running service: start_component and
\* stop_component on lunar / "API Gateway", in turn.
WarmStep ==
    /\ warmed < WarmUp
    /\ warmed' = warmed + 1
    /\ UNCHANGED steps
    /\ ComponentCall("lunar", "API Gateway", IF warmed % 2 = 0 THEN "start" ELSE "stop")

\* A long-running service: WarmUp earlier calls, then any calls.
NextLong ==
    \/ WarmStep
    \/ warmed = WarmUp /\ Tick
    \/ warmed = WarmUp /\ Calls(LongKeyInputs)

Spec == Init /\ [][Next]_vars

SpecLong == Init /\ [][NextLong]_vars

----------------------------------------------------------------------------
(* The status derivation on its own *)

InitDerive ==
    /\ clock = 0
    /\ steps = 0
    /\ statuses \in SeqsUpTo(StatusInputs, MaxStatuses)
    /\ derived = "none"
    /\ LaunchIdle
    /\ DbIdle
    /\ GuiIdle
    /\ CodecIdle

\* _derive_project_status on a project whose components have these statuses.
Derive ==
    /\ derived = "none"
    /\ derived' = DeriveStatus(statuses)
    /\ UNCHANGED <<statuses, clock, steps, launchVars, dbVars, guiVars, codecVars>>

NextDerive == Derive

SpecDerive == InitDerive /\ [][NextDerive]_vars

----------------------------------------------------------------------------
(* ProjectDatabase and the Project objects its callers hold *)

\* A new database, and the new Project objects that its callers hold.
InitDb ==
    /\ clock = 0
    /\ steps = 0
    /\ db = NoRows
    /\ ents = [i \in EntIds |-> HeldProject(i)]
    /\ dbret = NoCall
    /\ firstUp = [i \in EntIds |-> NotUpserted]
    /\ LaunchIdle
    /\ DeriveIdle
    /\ GuiIdle
    /\ CodecIdle

\* upsert_project(ents[i]): the object is stamped, the row written, the object
\* returned; or the write fails and the call raises.
upsert_project(i, failure) ==
    /\ steps < MaxDbSteps
    /\ steps' = steps + 1
    /\ LET done == UpsertProject(db, ents[i], clock, failure)
       IN  /\ ents' = [ents EXCEPT ![i] = done.project]
           /\ db' = done.rows
           /\ dbret' = [op |-> "upsert_project", ent |-> i,
                        result |-> IF done.raised THEN Raised ELSE done.project]
           /\ firstUp' = [firstUp EXCEPT ![i] =
                 IF done.raised THEN @
                 ELSE IF @.n = 0
                 THEN [n |-> 1, created_at |-> done.project.created_at,
                       updated_at |-> done.project.updated_at]
                 ELSE [@ EXCEPT !.n = 2]]
    /\ UNCHANGED <<clock, launchVars, deriveVars, guiVars, codecVars>>

\* ents[i] = get_project(key): a new object when the row exists.
get_project(i, key) ==
    /\ steps < MaxDbSteps
    /\ steps' = steps + 1
    /\ dbret' = [op |-> "get_project", result |-> GetProject(db, key)]
    /\ IF key \in DOMAIN db
       THEN /\ ents' = [ents EXCEPT ![i] = GetProject(db, key)]
            /\ firstUp' = [firstUp EXCEPT ![i] = NotUpserted]
       ELSE UNCHANGED <<ents, firstUp>>
    /\ UNCHANGED <<clock, db, launchVars, deriveVars, guiVars, codecVars>>

delete_project(key) ==
    /\ steps < MaxDbSteps
    /\ steps' = steps + 1
    /\ db' = DeleteRow(db, key)
    /\ dbret' = [op |-> "delete_project", result |-> Bool(key \in DOMAIN db)]
    /\ UNCHANGED <<clock, ents, firstUp, launchVars, deriveVars, guiVars, codecVars>>

\* Project.set_favorite on a held object.
set_favorite(i, is_favorite) ==
    /\ steps < MaxDbSteps
    /\ steps' = steps + 1
    /\ ents' = [ents EXCEPT ![i].favorite = is_favorite]
    /\ UNCHANGED <<clock, db, dbret, firstUp, launchVars, deriveVars, guiVars, codecVars>>

list_projects ==
    /\ steps < MaxDbSteps
    /\ steps' = steps + 1
    /\ dbret' = [op |-> "list_projects", result |-> ListProjects(db)]
    /\ UNCHANGED <<clock, db, ents, firstUp, launchVars, deriveVars, guiVars, codecVars>>

\* A call of one of the read-modify-write helpers of ProjectDatabase, where
\* changed is the project read with the helper's change.
HelperCall(op, key, changed, failure) ==
    /\ steps < MaxDbSteps
    /\ steps' = steps + 1
    /\ LET done == ReadModifyWrite(db, key, changed, clock, failure)
       IN  /\ db' = done.rows
           /\ dbret' = [op |-> op, key |-> key, result |-> done.result]
    /\ UNCHANGED <<clock, ents, firstUp, launchVars, deriveVars, guiVars, codecVars>>

\* ProjectDatabase.set_favorite
db_set_favorite(key, is_favorite, failure) ==
    LET project == GetProject(db, key)
    IN  HelperCall("set_favorite", key,
            IF project = NoProject THEN NoProject
            ELSE [project EXCEPT !.favorite = is_favorite], failure)

update_last_profile(key, profile, failure) ==
    LET project == GetProject(db, key)
    IN  HelperCall("update_last_profile", key,
            IF project = NoProject THEN NoProject
            ELSE [project EXCEPT !.last_profile = profile], failure)

\* record_history(key, description) with timestamp=None
record_history(key, description, failure) ==
    LET project == GetProject(db, key)
    IN  HelperCall("record_history", key,
            IF project = NoProject THEN NoProject
            ELSE AddHistory(project, description, clock), failure)

\* bulk_import([ents[i] for i in items]), where the upsert of item failAt raises.
bulk_import(items, failAt) ==
    /\ steps < MaxDbSteps
    /\ steps' = steps + 1
    /\ LET done == UpsertEach(db, [j \in 1..Len(items) |-> ents[items[j]]],
                              clock, failAt)
           \* the last position of an object among the items
           place(i) == CHOOSE j \in 1..Len(items) :
                          items[j] = i /\ \A h \in (j + 1)..Len(items) : items[h] # i
       IN  /\ db' = done.rows
           /\ ents' = [i \in EntIds |->
                          IF \E j \in 1..Len(items) : items[j] = i
                          THEN done.projects[place(i)]
                          ELSE ents[i]]
           /\ dbret' = [op |-> "bulk_import", items |-> items, failAt |-> failAt,
                        result |-> IF done.raised THEN Raised ELSE NoProject]
    /\ UNCHANGED <<clock, firstUp, launchVars, deriveVars, guiVars, codecVars>>

NextDb ==
    \/ Tick
    \/ \E i \in EntIds, f \in Failures : upsert_project(i, f)
    \/ list_projects
    \/ \E k \in DbKeys, b \in BOOLEAN, f \in HelperFailures : db_set_favorite(k, b, f)
    \/ \E k \in DbKeys, f \in HelperFailures : update_last_profile(k, "prod", f)
    \/ \E k \in DbKeys, f \in HelperFailures : record_history(k, <<"Note">>, f)
    \/ \E items \in ImportInputs : \E failAt \in 0..Len(items) :
           bulk_import(items, failAt)
    \/ \E i \in EntIds, k \in DbKeys : get_project(i, k)
    \/ \E k \in DbKeys : delete_project(k)
    \/ \E i \in EntIds, f \in BOOLEAN : set_favorite(i, f)

SpecDb == InitDb /\ [][NextDb]_vars

----------------------------------------------------------------------------
(* ProjectStore and ProjectListModel over one database *)

\* Calls of create_from_summary, as <<summary, failure>>: values to strip and
\* empty values; defaults only, with a failing write; a blank key; an empty
\* name; the key of a built-in project.
CreateCalls ==
    { <<[key |-> "alpha ", name |-> "alpha", icon |-> "", status |-> "",
         tags |-> <<"web", " ">>], "none">>,
      <<[key |-> "gamma", name |-> "gamma"], "commit">>,
      <<[key |-> " ", name |-> "gamma"], "none">>,
      <<[key |-> "nebula", name |-> ""], "none">>,
      <<[key |-> "nebula", name |-> "Beta", favorite |-> TRUE], "none">> }

\* Calls of addProject, as <<payload, failure>>: None; a new project, written
\* or not; an empty key; an empty name with a description.
AddCalls ==
    { <<NoPayload, "none">>,
      <<[key |-> "gamma", name |-> "gamma"], "none">>,
      <<[key |-> "gamma", name |-> "gamma"], "commit">>,
      <<[key |-> "", name |-> "gamma"], "none">>,
      <<[key |-> "beta", name |-> "", description |-> "web"], "none">> }

\* Calls of setData, as <<row, role, value, failure>>; no model has a row 99.
StoreEditCalls ==
    { <<2, "favorite", TRUE, "none">>, <<2, "favorite", TRUE, "commit">>,
      <<1, "favorite", TRUE, "none">>, <<1, "status", "Stopped", "commit">>,
      <<1, "name", "gamma", "none">>, <<99, "favorite", TRUE, "none">> }
ListEditCalls ==
    { <<1, "favorite", TRUE, "none">>, <<1, "favorite", TRUE, "commit">>,
      <<1, "status", "Running", "none">>, <<2, "key", "gamma", "none">>,
      <<2, "tags", "web, api", "commit">>, <<1, "display", "gamma", "none">>,
      <<99, "favorite", TRUE, "none">> }

InitStore ==
    /\ clock = 0
    /\ steps = 0
    /\ DbIdle
    /\ LaunchIdle
    /\ DeriveIdle
    /\ GuiIdle
    /\ CodecIdle

\* ProjectStore(database)
ProjectStore_init(failAt) ==
    /\ ~store.built
    /\ LET done == LoadInitialProjects(db, clock, failAt)
       IN  /\ db' = done.rows
           /\ store' = done.store
           /\ guiret' = [op |-> "ProjectStore", failAt |-> failAt,
                         result |-> IF done.raised THEN Raised ELSE Bool(TRUE)]
    /\ UNCHANGED <<clock, steps, listModel, ents, dbret, firstUp, launchVars,
                   deriveVars, codecVars>>

create_from_summary(summary, failure) ==
    /\ store.built
    /\ steps < MaxGuiSteps
    /\ steps' = steps + 1
    /\ LET done == CreateFromSummary(db, store, summary, clock, failure)
       IN  /\ db' = done.rows
           /\ store' = done.store
           /\ guiret' = [op |-> "create_from_summary", summary |-> summary,
                         result |-> done.result]
    /\ UNCHANGED <<clock, listModel, ents, dbret, firstUp, launchVars, deriveVars, codecVars>>

\* setData of ProjectStore's list model
store_setData(row, role, value, failure) ==
    /\ store.built
    /\ steps < MaxGuiSteps
    /\ steps' = steps + 1
    /\ LET done == StoreSetData(db, store, row, role, value, clock, failure)
       IN  /\ db' = done.rows
           /\ store' = done.store
           /\ guiret' = [op |-> "store.setData", row |-> row, role |-> role,
                         result |-> done.result]
    /\ UNCHANGED <<clock, listModel, ents, dbret, firstUp, launchVars, deriveVars, codecVars>>

\* ProjectListModel(database)
ProjectListModel_init ==
    /\ ~listModel.built
    /\ listModel' = Refreshed(db)
    /\ guiret' = [op |-> "ProjectListModel", result |-> Bool(TRUE)]
    /\ UNCHANGED <<clock, steps, store, dbVars, launchVars, deriveVars, codecVars>>

addProject(payload, failure) ==
    /\ listModel.built
    /\ steps < MaxGuiSteps
    /\ steps' = steps + 1
    /\ LET done == AddProject(db, listModel, payload, clock, failure)
       IN  /\ db' = done.rows
           /\ listModel' = done.model
           /\ guiret' = [op |-> "addProject", payload |-> payload,
                         result |-> done.result]
    /\ UNCHANGED <<clock, store, ents, dbret, firstUp, launchVars, deriveVars, codecVars>>

\* setData of ProjectListModel
setData(row, role, value, failure) ==
    /\ listModel.built
    /\ steps < MaxGuiSteps
    /\ steps' = steps + 1
    /\ LET done == ListSetData(db, listModel, row, role, value, clock, failure)
       IN  /\ db' = done.rows
           /\ listModel' = done.model
           /\ guiret' = [op |-> "setData", row |-> row, role |-> role,
                         result |-> done.result]
    /\ UNCHANGED <<clock, store, ents, dbret, firstUp, launchVars, deriveVars, codecVars>>

\* ProjectDatabase.close: the application ends; the rows stay.
close ==
    /\ store.built \/ listModel.built
    /\ store' = NotBuilt
    /\ listModel' = NotBuilt
    /\ guiret' = [op |-> "close", result |-> Bool(TRUE)]
    /\ UNCHANGED <<clock, steps, dbVars, launchVars, deriveVars, codecVars>>

\* The calls happen within one tick of the clock.
NextStore ==
    \/ \E failAt \in {0, 2} : ProjectStore_init(failAt)
    \/ \E c \in CreateCalls : create_from_summary(c[1], c[2])
    \/ \E c \in StoreEditCalls : store_setData(c[1], c[2], c[3], c[4])
    \/ ProjectListModel_init
    \/ \E c \in AddCalls : addProject(c[1], c[2])
    \/ \E c \in ListEditCalls : setData(c[1], c[2], c[3], c[4])
    \/ \E k \in {"nebula", "gamma"} : delete_project(k)
    \/ record_history("aurora", <<"Note">>, "none")
    \/ close

SpecStore == InitStore /\ [][NextStore]_vars

----------------------------------------------------------------------------
(* Project as its callers use it (src/src/core/project.py) *)

\* JSON values that a payload may hold where a list of mappings is expected.
Null          == [json |-> "null"]
Number(n)     == [json |-> "number", value |-> n]
String(text)  == [json |-> "string", value |-> text]
Mapping(m)    == [json |-> "mapping", value |-> m]
List(items)   == [json |-> "list", items |-> items]

TypeError == [kind |-> "TypeError"]

\* The items for which isinstance(item, Mapping) holds, in order
MappingsOf(items) ==
    LET kept == SelectSeq(items, LAMBDA item : item.json = "mapping")
    IN  [i \in 1..Len(kept) |-> kept[i].value]

\* _normalize_sequence of a JSON value: None is [], a string is its stripped
\* non-empty pieces, a mapping or a number is the list holding it.
NormalizeSequence(value) ==
    CASE value.json = "null"    -> <<>>
      [] value.json = "string"  ->
            [i \in 1..Len(SplitTags(value.value)) |-> String(SplitTags(value.value)[i])]
      [] value.json = "list"    -> value.items
      [] OTHER                  -> <<value>>

\* `for entry in value` of from_dict, lines 254-288: None and a number are not
\* iterable.
Iterable(value) == value.json \notin {"null", "number"}

\* [X.from_dict(entry) for entry in value if isinstance(entry, Mapping)]: the
\* payloads read.  The characters of a string and the keys of a mapping are
\* strings, so none of them is read.
EntriesRead(value) ==
    IF value.json = "list" THEN MappingsOf(value.items) ELSE <<>>

\* Component.from_dict, lines 132-137: the payload with the health checks that
\* are read.
ComponentPayload(payload) ==
    IF "healthChecks" \in DOMAIN payload
    THEN [payload EXCEPT !.healthChecks = MappingsOf(NormalizeSequence(@))]
    ELSE payload

Collections == {"components", "quickLinks", "folders", "history", "healthChecks"}

\* Project.from_dict of a payload whose collections are JSON values: TypeError
\* when a collection is not iterable, else the project of the entries read.
FromJson(payload) ==
    LET Raw(c)  == Get(payload, c, List(<<>>))
        read    == [c \in Collections |-> EntriesRead(Raw(c))]
        plain   == [read EXCEPT !.components =
                       [i \in 1..Len(@) |-> ComponentPayload(@[i])]]
    IN  IF \E c \in Collections : ~Iterable(Raw(c))
        THEN TypeError
        ELSE FromDict(plain @@ payload)

\* EnsureComponent that removes the component of that name and appends.
EnsureComponentMovesLast(project, component) ==
    [project EXCEPT !.components =
        Append(SelectSeq(@, LAMBDA existing : existing.name # component.name),
               component)]

\* Project.ensure_component: the first component of that name is replaced in
\* place; without one the component is appended.
EnsureComponent(project, component) ==
    LET found == {i \in 1..Len(project.components) :
                     project.components[i].name = component.name}
        index == CHOOSE i \in found : \A j \in found : i <= j
    IN  IF found # {}
        THEN [project EXCEPT !.components[index] = component]
        ELSE [project EXCEPT !.components = Append(@, component)]

\* Inputs: components, tag lists (a tag may hold a comma), projects.
HeldComponent(name, status) ==
    SeedComponent(name, status, "web", "api", << <<<<9, 40>>, "web">> >>,
                  << [label |-> "web", status |-> "Healthy", detail |-> "api"] >>)
ComponentInputs ==
    {HeldComponent("web", "Running"), HeldComponent("api", "Stopped"),
     HeldComponent("gamma", "Paused")}
ProjectInputs ==
    LET ComponentLists ==
            { <<>>,
              <<HeldComponent("web", "Ready")>>,
              <<HeldComponent("api", "Ready"), HeldComponent("web", "Ready")>> }
        TagLists == {<<>>, <<"web">>, <<"web", "api">>, <<"web, api", "web">>}
    IN
    { [NewProject("alpha", created) EXCEPT
          !.updated_at = created, !.tags = tags, !.components = components,
          !.quick_links = IF full THEN <<[label |-> "web", url |-> "api"]>> ELSE <<>>,
          !.folders = IF full THEN <<[label |-> "web", path |-> "api"]>> ELSE <<>>,
          !.history = IF full THEN <<[time |-> <<9, 42>>, description |-> <<"Launch", "dev">>],
                                     [time |-> <<"Today">>, description |-> <<"Note">>]>>
                      ELSE <<>>,
          !.health_checks = IF full
                            THEN <<[label |-> "web", status |-> "Healthy", detail |-> "api"]>>
                            ELSE <<>>,
          !.last_profile = IF full THEN "prod" ELSE "dev",
          !.favorite = full, !.usage_hours = IF full THEN 185 ELSE 0]
      : created \in {NoTime, 0}, tags \in TagLists, components \in ComponentLists,
        full \in BOOLEAN }

\* Payloads with malformed collections.
RawInputs ==
    LET Named == [key |-> "alpha", name |-> "alpha"]
        LinkPayload == [label |-> "web", url |-> "api"]
        EventPayload == [time |-> <<9, 42>>, description |-> <<"Note">>]
        CheckPayload == [label |-> "web", status |-> "Healthy", detail |-> "api"]
    IN
    { [components |-> List(<<Mapping([name |-> "web", status |-> "Running"]), Null,
                             Mapping([name |-> "api", status |-> "Stopped",
                                      healthChecks |-> Null]),
                             String("web")>>)] @@ Named,
      [components |-> List(<<Mapping([name |-> "web", status |-> "Running",
                                      healthChecks |-> List(<<Number(7),
                                                              Mapping(CheckPayload)>>)]),
                             Mapping([name |-> "api", status |-> "Stopped",
                                      healthChecks |-> Mapping(CheckPayload)])>>),
       history |-> List(<<Number(7), Mapping(EventPayload)>>),
       quickLinks |-> List(<<String("web"), Mapping(LinkPayload)>>)] @@ Named,
      [components |-> Null] @@ Named,
      [quickLinks |-> Number(7)] @@ Named,
      [folders |-> String("web")] @@ Named,
      [history |-> Mapping(EventPayload)] @@ Named,
      [healthChecks |-> Null, folders |-> List(<<>>)] @@ Named }

InitProject ==
    /\ clock = 0
    /\ steps = 0
    /\ subject \in ProjectInputs
    /\ outcome = NoCall
    /\ LaunchIdle
    /\ DeriveIdle
    /\ DbIdle
    /\ GuiIdle

Called(result) ==
    /\ steps < MaxCodecSteps
    /\ steps' = steps + 1
    /\ outcome' = result
    /\ UNCHANGED <<clock, launchVars, deriveVars, dbVars, guiVars>>

\* subject.to_dict()
to_dict ==
    /\ Called([op |-> "to_dict", result |-> ToDict(subject)])
    /\ UNCHANGED subject

\* Project.from_dict(payload), of the payload that to_dict returned
from_dict ==
    /\ outcome.op = "to_dict"
    /\ Called([op |-> "from_dict", payload |-> outcome.result,
               result |-> FromDict(outcome.result)])
    /\ UNCHANGED subject

\* Project.from_dict(payload), of a payload received from outside
from_json(payload) ==
    /\ Called([op |-> "from_json", payload |-> payload, result |-> FromJson(payload)])
    /\ UNCHANGED subject

\* subject.to_overview()
to_overview ==
    /\ Called([op |-> "to_overview", result |-> ToOverview(subject)])
    /\ UNCHANGED subject

\* subject.ensure_component(component)
ensure_component(component) ==
    /\ Called([op |-> "ensure_component", result |-> component])
    /\ subject' = EnsureComponent(subject, component)

NextProject ==
    \/ to_dict
    \/ from_dict
    \/ \E payload \in RawInputs : from_json(payload)
    \/ to_overview
    \/ \E component \in ComponentInputs : ensure_component(component)

SpecProject == InitProject /\ [][NextProject]_vars

----------------------------------------------------------------------------
(* Claims *)

\* What each status of StatusInputs contains, compared without case.
HasFailOrError(s) == s \in {"Failed", "Error"}
HasRunning(s)     == s \in {"Running", "RUNNING"}
HasPaused(s)      == s = "Paused"
HasStopped(s)     == s = "Stopped"

\* The precedence of the aggregate status, on the set of statuses present.
Precedence(present) ==
    IF present = {} THEN "Ready"
    ELSE IF \E s \in present : HasFailOrError(s) THEN "Needs Attention"
    ELSE IF \E s \in present : HasRunning(s) THEN "Running"
    ELSE IF \E s \in present : HasPaused(s) THEN "Paused"
    ELSE IF \A s \in present : HasStopped(s) THEN "Stopped"
    ELSE "Ready"

Reorderings(n) == {f \in [1..n -> 1..n] : \A i, j \in 1..n : i # j => f[i] # f[j]}

\* C1: the derived status of every list of component statuses is the first match
\* of: empty -> Ready; some status contains fail or error -> Needs Attention;
\* some contains running -> Running; some contains paused -> Paused; all contain
\* stopped -> Stopped; else Ready (without case), and every reordering of the
\* list derives the same status.
C1_DerivePrecedence ==
    derived # "none" =>
        /\ derived = Precedence({statuses[i] : i \in 1..Len(statuses)})
        /\ \A f \in Reorderings(Len(statuses)) :
               DeriveStatus([i \in 1..Len(statuses) |-> statuses[f[i]]]) = derived

C1_Witness ==
    /\ statuses = <<"Stopped", "RUNNING", "Error">>
    /\ derived = "Needs Attention"

\* C2: every project held by LaunchService is active exactly when its status is
\* Running or Paused, and its status is the one derived from its components.
C2_ActiveIffRunningOrPaused ==
    \A k \in DOMAIN projects :
        /\ projects[k].active <=> projects[k].status \in {"Running", "Paused"}
        /\ projects[k].status =
               Precedence({projects[k].components[i].status :
                              i \in 1..Len(projects[k].components)})

C2_Witness ==
    /\ steps = 2
    /\ last.result = Empty
    /\ projects["lunar"].status = "Paused"
    /\ projects["lunar"].active

\* The component of project called name is absent, the project is, or the
\* action is none of the four.
BadTarget(k, n, a) ==
    \/ k \notin DOMAIN projects
    \/ \A i \in 1..Len(projects[k].components) : projects[k].components[i].name # n
    \/ a \notin {"start", "stop", "pause", "resume"}

\* C3: a component action on an unknown project key, on a component name the
\* project does not contain, or with an action other than start, stop, pause,
\* resume returns the empty result and leaves every held project as it was.
C3_UnknownTargetIsNoOp ==
    [][\A k \in KeyInputs : \A n \in NameInputs(k) :
           \A a \in {"start", "stop", "pause", "resume", "restart"} :
               (BadTarget(k, n, a) /\ component_action(k, n, a)) =>
                   (last'.result = Empty /\ projects' = projects)]_vars

C3_Witness ==
    /\ clock = 1
    /\ steps = 1
    /\ last = [op |-> "component_action", result |-> Empty]

\* The profile a launch with argument p uses on project old.
EffectiveProfile(old, p) ==
    IF p # "" THEN p
    ELSE IF old.last_profile # "" THEN old.last_profile
    ELSE old.default_profile

\* C4: after launch_project on a held project every component is Running with
\* detail "Launch profile <profile>", whatever it was; with a component the
\* project is Running and active, without one it is Ready and not active.
C4_LaunchStartsEveryComponent ==
    [][\A k \in KeyInputs, p \in ProfileInputs :
           (k \in DOMAIN projects /\ launch_project(k, p)) =>
               LET old == projects[k]
                   new == projects'[k]
               IN  /\ Len(new.components) = Len(old.components)
                   /\ \A i \in 1..Len(old.components) :
                          /\ new.components[i].name = old.components[i].name
                          /\ new.components[i].status = "Running"
                          /\ new.components[i].status_detail =
                                 <<"Launch profile", EffectiveProfile(old, p)>>
                   /\ Len(old.components) > 0 => (new.status = "Running" /\ new.active)
                   /\ Len(old.components) = 0 => (new.status = "Ready" /\ ~new.active)]_vars

\* lunar (Failed, Stopped) launched from the start state.
C4_Witness ==
    /\ steps = 1
    /\ last.op = "launch_project"
    /\ last.result # Empty
    /\ last.result.project.key = "lunar"
    /\ projects["lunar"].status = "Running"
    /\ projects["lunar"].active
    /\ \A i \in 1..2 : projects["lunar"].components[i].status = "Running"

\* C5: launch_project uses the profile argument if not empty, else last_profile
\* if not empty, else default_profile; afterwards last_profile is that profile
\* and the history is the old history with one entry "Launch (<profile>)" added
\* at the end.
C5_LaunchProfileAndHistory ==
    [][\A k \in KeyInputs, p \in ProfileInputs :
           (k \in DOMAIN projects /\ launch_project(k, p)) =>
               LET old == projects[k]
                   new == projects'[k]
                   n   == Len(old.history)
               IN  /\ new.last_profile = EffectiveProfile(old, p)
                   /\ Len(new.history) = n + 1
                   /\ SubSeq(new.history, 1, n) = old.history
                   /\ new.history[n + 1].description =
                          <<"Launch", EffectiveProfile(old, p)>>]_vars

\* lunar (last_profile "dev") launched from the start state with no profile.
C5_Witness ==
    /\ steps = 1
    /\ last.op = "launch_project"
    /\ last.result # Empty
    /\ last.result.project.key = "lunar"
    /\ projects["lunar"].last_profile = "dev"
    /\ Len(projects["lunar"].history) = 2
    /\ projects["lunar"].history[2].description = <<"Launch", "dev">>

\* The status and the detail a component action gives its component.
TargetStatus(a) ==
    CASE a = "start" -> "Running" [] a = "resume" -> "Running"
      [] a = "stop" -> "Stopped" [] a = "pause" -> "Paused"
TargetDetail(a) ==
    CASE a = "start" -> <<"Manual start">> [] a = "resume" -> <<"Resume">>
      [] a = "stop" -> <<"Stopped via LaunchPad">> [] a = "pause" -> <<"Paused via LaunchPad">>

\* C6: a component action on a component the project contains sets its status
\* and detail to the action's target, whatever its status was.
C6_ActionSetsTargetStatus ==
    [][\A k \in KeyInputs : \A n \in NameInputs(k) :
           \A a \in {"start", "stop", "pause", "resume"} :
               (~BadTarget(k, n, a) /\ component_action(k, n, a)) =>
                   \A i \in 1..Len(projects[k].components) :
                       projects[k].components[i].name = n =>
                           /\ projects'[k].components[i].name = n
                           /\ projects'[k].components[i].status = TargetStatus(a)
                           /\ projects'[k].components[i].status_detail = TargetDetail(a)]_vars

\* resume on lunar / Telemetry, which was Stopped.
C6_Witness ==
    /\ steps = 1
    /\ last.op = "component_action"
    /\ last.result # Empty
    /\ projects["lunar"].components[2].name = "Telemetry"
    /\ projects["lunar"].components[2].status = "Running"
    /\ projects["lunar"].components[2].status_detail = <<"Resume">>

\* C7: stop on a component whose project's other components are all stopped
\* makes the project Stopped and not active, whatever the component and the
\* project were before.
C7_StopLastComponentStopsProject ==
    [][\A k \in KeyInputs : \A n \in NameInputs(k) :
           (/\ ~BadTarget(k, n, "stop")
            /\ \A i \in 1..Len(projects[k].components) :
                   projects[k].components[i].name # n =>
                       HasStopped(projects[k].components[i].status)
            /\ stop_component(k, n)) =>
               (projects'[k].status = "Stopped" /\ ~projects'[k].active)]_vars

\* stop on lunar / "API Gateway" (Failed, the project Needs Attention) from the start state.
C7_Witness ==
    /\ steps = 1
    /\ projects["lunar"].components[1].status_detail = <<"Stopped via LaunchPad">>
    /\ projects["lunar"].components[2].status = "Stopped"
    /\ projects["lunar"].status = "Stopped"
    /\ ~projects["lunar"].active

\* C8: no held project's history has more than 100 entries.
C8_HistoryCapped ==
    \A k \in DOMAIN projects : Len(projects[k].history) <= MaxEntries

\* new is old with line added, cut to its last 100 entries.
LogsAfter(old, new, line) ==
    LET all == Append(old, line)
    IN  /\ Len(new) <= MaxEntries
        /\ Len(new) = IF Len(all) <= MaxEntries THEN Len(all) ELSE MaxEntries
        /\ \A j \in 1..Len(new) : new[j] = all[Len(all) - Len(new) + j]

\* C9: after a successful component action or launch, the logs of each component
\* it acted on are at most 100 entries: the old lines in their order with the new
\* line last, less the oldest lines beyond 100.
C9_LogsKeepMostRecent ==
    [][/\ \A k \in LongKeyInputs : \A n \in NameInputs(k) :
              \A a \in {"start", "stop", "pause", "resume"} :
                  (~BadTarget(k, n, a) /\ component_action(k, n, a)) =>
                      \A i \in 1..Len(projects[k].components) :
                          projects[k].components[i].name = n =>
                              LogsAfter(projects[k].components[i].logs,
                                        projects'[k].components[i].logs,
                                        <<Timestamp(clock), TargetStatus(a), TargetDetail(a)>>)
       /\ \A k \in LongKeyInputs, p \in ProfileInputs :
              (k \in DOMAIN projects /\ launch_project(k, p)) =>
                  \A i \in 1..Len(projects[k].components) :
                      LogsAfter(projects[k].components[i].logs,
                                projects'[k].components[i].logs,
                                <<Timestamp(clock), "Running",
                                  <<"Launch profile", EffectiveProfile(projects[k], p)>> >>)
      ]_vars

\* pause on lunar / "API Gateway", whose logs held 100 lines: the oldest line
\* is gone and the new line is the last of 100.
C9_Witness ==
    /\ steps = 1
    /\ last.op = "component_action"
    /\ last.result # Empty
    /\ Len(projects["lunar"].components[1].logs) = MaxEntries
    /\ projects["lunar"].components[1].logs[MaxEntries] =
           <<Timestamp(clock), "Paused", <<"Paused via LaunchPad">> >>
    /\ projects["lunar"].components[1].logs[1] =
           <<Timestamp(0), "Running", <<"Manual start">> >>

\* C10: when the same Project object is upserted a second time, its created_at
\* (on the object returned and on what get_project reads back) is the one it had
\* after its first upsert, and its updated_at is not earlier than the first one.
C10_SecondUpsertKeepsCreatedAt ==
    \A i \in EntIds :
        (/\ dbret.op = "upsert_project" /\ dbret.ent = i
         /\ dbret.result # Raised /\ firstUp[i].n = 2) =>
            /\ firstUp[i].created_at # NoTime
            /\ ents[i].created_at = firstUp[i].created_at
            /\ dbret.result.created_at = firstUp[i].created_at
            /\ GetProject(db, ents[i].key) # NoProject
            /\ GetProject(db, ents[i].key).created_at = firstUp[i].created_at
            /\ ents[i].updated_at >= firstUp[i].updated_at

\* An object without created_at upserted at time 0 and again at time 1.
C10_Witness ==
    \E i \in EntIds :
        /\ dbret.op = "upsert_project"
        /\ dbret.ent = i
        /\ dbret.result # Raised
        /\ firstUp[i].n = 2
        /\ firstUp[i].updated_at = 0
        /\ ents[i].updated_at = 1
        /\ ents[i].created_at = 0

\* C11: an upsert_project for a key that is already stored leaves the
\* created_at that get_project reads back as it was before the upsert, whatever
\* created_at the passed object carries.
C11_UpsertKeepsStoredCreatedAt ==
    [][\A i \in EntIds :
          (/\ ents[i].key \in DOMAIN db
           /\ dbret'.op = "upsert_project"
           /\ upsert_project(i, "none")) =>
              GetProject(db', ents[i].key).created_at
                  = GetProject(db, ents[i].key).created_at]_vars

\* The columns of row are those that snapshot (a to_dict payload) gives,
\* created_at aside.
ColumnsMatch(row, snapshot) ==
    /\ row.data = JsonDumps(snapshot)
    /\ row.key = snapshot.key
    /\ row.name = snapshot.name
    /\ row.icon = snapshot.icon
    /\ row.default_profile = snapshot.defaultProfile
    /\ row.last_profile = snapshot.lastProfile
    /\ row.summary = snapshot.summary
    /\ row.tags = TagsAsText(snapshot.tags)
    /\ row.status = snapshot.status
    /\ row.favorite = (IF snapshot.favorite THEN 1 ELSE 0)
    /\ row.active = (IF snapshot.active THEN 1 ELSE 0)
    /\ row.usage_hours = snapshot.usageHours
    /\ row.updated_at = snapshot.updatedAt

\* C12: upsert_project is atomic.  When the write fails the call raises and
\* the rows are what they were before the call, for this key and every other;
\* when it succeeds the row of the key holds the snapshot of the passed object
\* and the columns taken from it, and no other row changes.
C12_UpsertIsAtomic ==
    [][\A i \in EntIds : \A f \in Failures :
          (dbret'.op = "upsert_project" /\ upsert_project(i, f)) =>
              IF f # "none"
              THEN db' = db /\ dbret'.result = Raised
              ELSE /\ DOMAIN db' = DOMAIN db \cup {ents[i].key}
                   /\ ColumnsMatch(db'[ents[i].key], ToDict(ents'[i]))
                   /\ dbret'.result = ents'[i]
                   /\ \A k \in DOMAIN db \ {ents[i].key} : db'[k] = db[k]]_vars

\* A failed upsert at time 1 of an object whose row was written at time 0,
\* with another row in the table.
C12_Witness ==
    /\ dbret.op = "upsert_project"
    /\ dbret.result = Raised
    /\ ents[dbret.ent].key \in DOMAIN db
    /\ ents[dbret.ent].updated_at = 1
    /\ db[ents[dbret.ent].key].updated_at = IsoFormat(0)
    /\ \E k \in DOMAIN db : k # ents[dbret.ent].key

\* C15: list_projects returns every stored project exactly once, ordered by
\* name ascending under case-insensitive comparison.
C15_ListOrderedIgnoringCase ==
    dbret.op = "list_projects" =>
        LET listed == dbret.result
        IN  /\ Len(listed) = Cardinality(DOMAIN db)
            /\ \A k \in DOMAIN db :
                   Cardinality({i \in 1..Len(listed) : listed[i].key = k}) = 1
            /\ \A i, j \in 1..Len(listed) :
                   i < j => ~LowerLess[listed[j].name, listed[i].name]

\* C16: a stored key disappears only through delete_project(key), which
\* removes exactly that row, returns whether the row existed and leaves the
\* other rows as they were; afterwards get_project(key) is None.
C16_OnlyDeleteRemoves ==
    [][/\ \A k \in DOMAIN db : k \notin DOMAIN db' => delete_project(k)
       /\ \A k \in DbKeys :
             (dbret'.op = "delete_project" /\ delete_project(k)) =>
                 /\ DOMAIN db' = DOMAIN db \ {k}
                 /\ \A other \in DOMAIN db' : db'[other] = db[other]
                 /\ dbret'.result = Bool(k \in DOMAIN db)
                 /\ GetProject(db', k) = NoProject]_vars

\* One of two stored projects was deleted.
C16_Witness ==
    /\ dbret.op = "delete_project"
    /\ dbret.result = Bool(TRUE)
    /\ Cardinality(DOMAIN db) = 1

\* What a helper call on a stored key must give: the project read back is the
\* one returned, and it is the stored one with the change and a new updated_at.
HelperEffect(key, changed) ==
    /\ dbret'.result = [changed EXCEPT !.updated_at = clock]
    /\ GetProject(db', key) = dbret'.result
    /\ \A other \in DOMAIN db \ {key} : db'[other] = db[other]
    /\ DOMAIN db' = DOMAIN db

\* C17: set_favorite, update_last_profile and record_history return None and
\* leave the rows alone for a key that is not stored; for a stored key they
\* return the updated project, which get_project reads back: the stored
\* project with the change, a new updated_at and nothing else different.
C17_HelpersReadModifyWrite ==
    [][\A k \in DbKeys :
          LET old == GetProject(db, k)
          IN  /\ \A b \in BOOLEAN :
                    (dbret'.op = "set_favorite" /\ db_set_favorite(k, b, "none")) =>
                        IF old = NoProject
                        THEN db' = db /\ dbret'.result = NoProject
                        ELSE HelperEffect(k, [old EXCEPT !.favorite = b])
              /\ (/\ dbret'.op = "update_last_profile"
                  /\ update_last_profile(k, "prod", "none")) =>
                        IF old = NoProject
                        THEN db' = db /\ dbret'.result = NoProject
                        ELSE HelperEffect(k, [old EXCEPT !.last_profile = "prod"])
              /\ (/\ dbret'.op = "record_history"
                  /\ record_history(k, <<"Note">>, "none")) =>
                        IF old = NoProject
                        THEN db' = db /\ dbret'.result = NoProject
                        ELSE HelperEffect(k,
                                [old EXCEPT !.history = Append(@,
                                    [time |-> Timestamp(clock),
                                     description |-> <<"Note">>])])]_vars

\* record_history on a stored project, after the clock moved on.
C17_Witness ==
    /\ dbret.op = "record_history"
    /\ dbret.result \notin {NoProject, Raised}
    /\ Len(dbret.result.history) = 1
    /\ dbret.result.created_at = 0
    /\ dbret.result.updated_at = 1
    /\ GetProject(db, dbret.key) = dbret.result

\* C18: bulk_import upserts the items in order, each in its own transaction.
\* When the upsert of item failAt fails the call raises, the items before it
\* stay stored and that item and the later ones are not stored; of two items
\* with one key the later is the one stored; rows of other keys are untouched.
C18_BulkImportNotAtomic ==
    [][\A items \in ImportInputs : \A failAt \in 0..Len(items) :
          (/\ dbret'.op = "bulk_import"
           /\ dbret'.items = items
           /\ dbret'.failAt = failAt
           /\ bulk_import(items, failAt)) =>
              LET done == IF failAt = 0 THEN Len(items) ELSE failAt - 1
                  keys == {ents[items[j]].key : j \in 1..done}
                  last_of(k) == CHOOSE j \in 1..done :
                                   /\ ents[items[j]].key = k
                                   /\ \A h \in (j + 1)..done : ents[items[h]].key # k
              IN  /\ dbret'.result = (IF failAt = 0 THEN NoProject ELSE Raised)
                  /\ DOMAIN db' = DOMAIN db \cup keys
                  /\ \A k \in keys :
                         GetProject(db', k) = ents'[items[last_of(k)]]
                  /\ \A k \in DOMAIN db \ keys : db'[k] = db[k]]_vars

\* An import of two projects where the second upsert failed: the first is
\* stored, the second is not.
C18_Witness ==
    /\ dbret.op = "bulk_import"
    /\ dbret.result = Raised
    /\ dbret.failAt = 2
    /\ ents[dbret.items[1]].key \in DOMAIN db
    /\ ents[dbret.items[2]].key \notin DOMAIN db

\* C14: after a successful launch_project or component action, the store's
\* get_project(key) yields the component statuses, history, status, active and
\* last_profile of the detail payload that the call returned.
C14_FacadePersists ==
    last.result # Empty =>
        LET detail == last.result.project
            stored == GetProject(db, detail.key)
        IN  /\ stored # NoProject
            /\ ToDict(stored).components = detail.components
            /\ stored.history = detail.history
            /\ stored.status = detail.status
            /\ stored.active = detail.active
            /\ stored.last_profile = detail.lastProfile

----------------------------------------------------------------------------
\* C19: constructing a ProjectStore on a database without projects persists
\* exactly the four built-in projects (keys nebula, aurora, lunar, quasar) and
\* shows them; constructing it on a database that holds any project writes
\* nothing, so a deleted built-in project stays deleted and an edited one
\* stays edited.
C19_SeedsOnlyEmptyStore ==
    [][\A failAt \in {0, 2} :
          (guiret'.op = "ProjectStore" /\ ProjectStore_init(failAt)) =>
              IF DOMAIN db = {}
              THEN failAt = 0 =>
                     /\ DOMAIN db' = {"nebula", "aurora", "lunar", "quasar"}
                     /\ Len(store'.projects) = 4
                     /\ \A i \in 1..4 :
                            LET seed == [InitialProjects[i] EXCEPT
                                            !.created_at = clock, !.updated_at = clock]
                            IN  /\ store'.projects[i] = seed
                                /\ GetProject(db', seed.key) = seed
              ELSE /\ db' = db
                   /\ store'.projects = ListProjects(db)]_vars

\* A store constructed after a built-in project was deleted: three are left.
C19_Witness ==
    /\ guiret.op = "ProjectStore"
    /\ store.built
    /\ DOMAIN db = {"aurora", "lunar", "quasar"}
    /\ Len(store.projects) = 3

----------------------------------------------------------------------------
\* C13: when the write of a mutating call fails, what is held in memory is as
\* it was before the call: a setData or a create that raised leaves the
\* projects, the list rows and the cached details of the store and of the list
\* model unchanged, timestamps included.
C13_FailedWriteLeavesMemory ==
    [][(guiret'.result = Raised /\ steps' = steps + 1 /\ dbret' = dbret) =>
          (store' = store /\ listModel' = listModel)]_vars

----------------------------------------------------------------------------
\* The fields a create request leaves out have their defaults in the project.
Defaulted(request, project) ==
    /\ "icon" \notin DOMAIN request => project.icon = "folder"
    /\ "defaultProfile" \notin DOMAIN request => project.default_profile = "dev"
    /\ "status" \notin DOMAIN request => project.status = "Ready"
    /\ "usageHours" \notin DOMAIN request => project.usage_hours = 0

\* The key or the name of a create request is empty after trimming.
Unnamed(request) ==
    Strip[Get(request, "key", "")] = "" \/ Strip[Get(request, "name", "")] = ""

\* C20: a create request whose key or name is empty after trimming returns
\* false and changes neither the rows, nor the store, nor the list model,
\* through create_from_summary and through addProject; a request with a key
\* and a name whose write succeeds returns true and stores the project with
\* the defaults (icon "folder", default_profile "dev", status "Ready",
\* usage_hours 0) for the fields it leaves out.
C20_CreateValidates ==
    [][/\ \A c \in CreateCalls :
            (guiret'.op = "create_from_summary" /\ create_from_summary(c[1], c[2])) =>
                IF Unnamed(c[1])
                THEN guiret'.result = Bool(FALSE) /\ db' = db /\ store' = store
                ELSE c[2] = "none" =>
                       /\ guiret'.result = Bool(TRUE)
                       /\ Strip[c[1].key] \in DOMAIN db'
                       /\ Defaulted(c[1], GetProject(db', Strip[c[1].key]))
       /\ \A c \in AddCalls \ {<<NoPayload, "none">>} :
            (guiret'.op = "addProject" /\ addProject(c[1], c[2])) =>
                IF Unnamed(c[1])
                THEN guiret'.result = Bool(FALSE) /\ db' = db
                     /\ listModel' = listModel
                ELSE c[2] = "none" =>
                       /\ guiret'.result = Bool(TRUE)
                       /\ Strip[c[1].key] \in DOMAIN db'
                       /\ Defaulted(c[1], GetProject(db', Strip[c[1].key]))]_vars

----------------------------------------------------------------------------
\* C21: for every Project P, Project.from_dict(P.to_dict()) equals P in every
\* field: components with their logs and health checks, quick links, folders,
\* history, health checks, tags (a tag that holds a comma stays one tag) and
\* timestamps; a timestamp that P lacks is no key of the payload and is
\* lacking in the result.
C21_RoundTrip ==
    outcome.op = "from_dict" =>
        /\ outcome.result = subject
        /\ subject.created_at = NoTime =>
              /\ "createdAt" \notin DOMAIN outcome.payload
              /\ outcome.result.created_at = NoTime
        /\ subject.updated_at = NoTime =>
              /\ "updatedAt" \notin DOMAIN outcome.payload
              /\ outcome.result.updated_at = NoTime

\* A round trip of a project without timestamps, with a tag that holds a
\* comma, two components with health checks, links, folders and history.
C21_Witness ==
    /\ outcome.op = "from_dict"
    /\ subject.created_at = NoTime
    /\ subject.tags = <<"web, api", "web">>
    /\ Len(subject.components) = 2
    /\ subject.components[1].health_checks # <<>>
    /\ subject.quick_links # <<>> /\ subject.folders # <<>>
    /\ subject.history # <<>> /\ subject.health_checks # <<>>

----------------------------------------------------------------------------
\* C22: Project.to_overview returns the tags as the list of the project's
\* tags, each tag one element, so that a tag holding a comma is neither merged
\* with nor split into other tags.
C22_OverviewTagsAreList ==
    outcome.op = "to_overview" => outcome.result.tags = subject.tags

----------------------------------------------------------------------------
\* C23: Project.from_dict does not raise on a malformed collection: where
\* components, quickLinks, folders, history or healthChecks is a list, the
\* entries that are mappings are read in order and the others skipped; where
\* it is null, a number, a string or a single mapping, a project is returned
\* all the same.
C23_MalformedCollectionsFiltered ==
    outcome.op = "from_json" =>
        /\ outcome.result # TypeError
        /\ LET Raw(c) == Get(outcome.payload, c, List(<<>>))
               Kept(c) == MappingsOf(Raw(c).items)
               result == outcome.result
           IN  /\ Raw("components").json = "list" =>
                     /\ Len(result.components) = Len(Kept("components"))
                     /\ \A i \in 1..Len(result.components) :
                            result.components[i].name = Kept("components")[i].name
               /\ Raw("quickLinks").json = "list" =>
                     result.quick_links = Kept("quickLinks")
               /\ Raw("folders").json = "list" => result.folders = Kept("folders")
               /\ Raw("history").json = "list" => result.history = Kept("history")
               /\ Raw("healthChecks").json = "list" =>
                     result.health_checks = Kept("healthChecks")

----------------------------------------------------------------------------
\* The names of the components are pairwise different.
UniqueNames(components) ==
    \A i, j \in 1..Len(components) :
        components[i].name = components[j].name => i = j

\* C25: ensure_component(c) on a project whose component names are unique
\* keeps them unique: a component named c.name is replaced by c at its index,
\* the length and every other entry unchanged; without one, c is appended and
\* the entries before it keep their positions.  Nothing else of the project
\* changes.
C25_EnsureComponentInPlace ==
    [][\A c \in ComponentInputs :
          (outcome'.op = "ensure_component" /\ ensure_component(c)
             /\ UniqueNames(subject.components)) =>
              LET old == subject.components
                  new == subject'.components
              IN  /\ UniqueNames(new)
                  /\ [subject' EXCEPT !.components = old] = subject
                  /\ IF \E i \in 1..Len(old) : old[i].name = c.name
                     THEN /\ Len(new) = Len(old)
                          /\ \A i \in 1..Len(old) :
                                new[i] = IF old[i].name = c.name THEN c ELSE old[i]
                     ELSE new = Append(old, c)]_vars

\* The first of two components was replaced in place.
C25_Witness ==
    /\ outcome.op = "ensure_component"
    /\ subject.components =
          <<HeldComponent("api", "Stopped"), HeldComponent("web", "Ready")>>

----------------------------------------------------------------------------
\* C26: after every successful upsert_project, insert or replace, each column
\* of a row equals the field of the row's data snapshot that it copies: name,
\* icon, default_profile, last_profile, summary, status, favorite, active,
\* usage_hours, tags as the joined text of the snapshot's tags, and created_at
\* and updated_at equal to the snapshot's createdAt and updatedAt.
C26_ColumnsFollowSnapshot ==
    \A k \in DOMAIN db :
        /\ ColumnsMatch(db[k], JsonLoads(db[k].data))
        /\ db[k].created_at = JsonLoads(db[k].data).createdAt

----------------------------------------------------------------------------
\* A call of ProjectStore or of ProjectListModel, and an edit through setData
\* of either list model.
GuiCall == steps' = steps + 1 /\ dbret' = dbret
Edit    == GuiCall /\ guiret'.op \in {"setData", "store.setData"}

\* C27: every project that ProjectStore persists (the built-in projects it
\* seeds, create_from_summary, setData of its list model) has active true if
\* and only if its status is "Running" or "Paused".
C27_StoredActiveIffStatus ==
    [][(guiret'.op \in {"ProjectStore", "create_from_summary", "store.setData"}
          /\ dbret' = dbret) =>
          \A k \in DOMAIN db' :
              (k \notin DOMAIN db \/ db'[k] # db[k]) =>
                  (GetProject(db', k).active <=>
                      GetProject(db', k).status \in {"Running", "Paused"})]_vars

----------------------------------------------------------------------------
\* The keys of the projects a list model holds, row by row.
HeldKeys(model) ==
    IF model.built THEN [i \in DOMAIN model.projects |-> model.projects[i].key]
    ELSE <<>>

\* C24: the key of a project never changes: an edit through a list model
\* leaves the key of every project it holds as it was and stores no row under
\* a key that no held project had, so no project gets a second row under a
\* new key.
C24_KeyNeverChanges ==
    [][Edit =>
          /\ HeldKeys(store') = HeldKeys(store)
          /\ HeldKeys(listModel') = HeldKeys(listModel)
          /\ \A k \in DOMAIN db' \ DOMAIN db :
                \/ \E i \in DOMAIN HeldKeys(store) : HeldKeys(store)[i] = k
                \/ \E i \in DOMAIN HeldKeys(listModel) : HeldKeys(listModel)[i] = k]_vars

----------------------------------------------------------------------------
\* C30: a change stored through a helper of ProjectDatabase is not lost by a
\* later edit of another field through a list model that read the project
\* before the change: every history entry that record_history stored for a key
\* is still in get_project(key) after a setData that succeeded.
C30_HelperChangeSurvivesEdit ==
    [][(Edit /\ guiret'.result = Bool(TRUE)) =>
          \A k \in DOMAIN db \cap DOMAIN db' :
              \A i \in DOMAIN GetProject(db, k).history :
                  \E j \in DOMAIN GetProject(db', k).history :
                      GetProject(db', k).history[j] = GetProject(db, k).history[i]]_vars

----------------------------------------------------------------------------
\* The word for the action in the history entry.
ActionVerb(a) ==
    CASE a = "start" -> "Start" [] a = "stop" -> "Stop"
      [] a = "pause" -> "Pause" [] a = "resume" -> "Resume"

\* new is old with one entry more, the given one, placed last.
OneMore(old, new, entry) ==
    /\ Len(new) = Len(old) + 1
    /\ SubSeq(new, 1, Len(old)) = old
    /\ new[Len(new)] = entry

\* C28: a successful component action appends exactly one history entry to
\* the project, naming the action and the component and placed last, and
\* exactly one log line to the component it targets; launch_project appends
\* exactly one history entry to the project and exactly one log line to each
\* of its components (a component whose logs hold fewer than 100 lines; at
\* 100 the oldest line goes, see C9); the earlier history entries keep their
\* order and content.
C28_OneHistoryEntryOneLogLine ==
    [][/\ \A k \in KeyInputs : \A n \in NameInputs(k) :
              \A a \in {"start", "stop", "pause", "resume"} :
                  (~BadTarget(k, n, a) /\ component_action(k, n, a)) =>
                      /\ OneMore(projects[k].history, projects'[k].history,
                                 [time |-> Timestamp(clock),
                                  description |-> <<ActionVerb(a), n>>])
                      /\ \A i \in 1..Len(projects[k].components) :
                             (/\ projects[k].components[i].name = n
                              /\ Len(projects[k].components[i].logs) < MaxEntries) =>
                                 OneMore(projects[k].components[i].logs,
                                         projects'[k].components[i].logs,
                                         <<Timestamp(clock), TargetStatus(a),
                                           TargetDetail(a)>>)
       /\ \A k \in KeyInputs, p \in ProfileInputs :
              (k \in DOMAIN projects /\ launch_project(k, p)) =>
                  /\ OneMore(projects[k].history, projects'[k].history,
                             [time |-> Timestamp(clock),
                              description |-> <<"Launch", EffectiveProfile(projects[k], p)>>])
                  /\ Len(projects'[k].components) = Len(projects[k].components)
                  /\ \A i \in 1..Len(projects[k].components) :
                         Len(projects[k].components[i].logs) < MaxEntries =>
                         OneMore(projects[k].components[i].logs,
                                 projects'[k].components[i].logs,
                                 <<Timestamp(clock), "Running",
                                   <<"Launch profile", EffectiveProfile(projects[k], p)>> >>)
      ]_vars

\* lunar after pause of "API Gateway" and then a launch: two entries after
\* the one it started with, two more log lines on the gateway, one more on
\* Telemetry.
C28_Witness ==
    /\ Len(projects["lunar"].history) = 3
    /\ projects["lunar"].history[2].description = <<"Pause", "API Gateway">>
    /\ projects["lunar"].history[3].description[1] = "Launch"
    /\ Len(projects["lunar"].components[1].logs) = 4
    /\ Len(projects["lunar"].components[2].logs) = 2

----------------------------------------------------------------------------
\* C29: a component action on project k and component n changes nothing else.
\* Every other project is unchanged; every other component of k is unchanged;
\* the target keeps everything but status, detail and logs; and k keeps
\* everything but components, history, status, active and updated_at (key,
\* name, tags, favorite, last_profile, links, created_at are as before).
\* launch_project on k leaves every other project unchanged.
C29_ActionFrame ==
    [][/\ \A k \in KeyInputs : \A n \in NameInputs(k) :
              \A a \in {"start", "stop", "pause", "resume"} :
                  (~BadTarget(k, n, a) /\ component_action(k, n, a)) =>
                      LET old == projects[k]
                          new == projects'[k]
                          i   == FindComponent(old, n)
                      IN  /\ DOMAIN projects' = DOMAIN projects
                          /\ \A other \in DOMAIN projects \ {k} :
                                 projects'[other] = projects[other]
                          /\ Len(new.components) = Len(old.components)
                          /\ \A j \in 1..Len(old.components) :
                                 j # i => new.components[j] = old.components[j]
                          /\ [new.components[i] EXCEPT
                                 !.status = old.components[i].status,
                                 !.status_detail = old.components[i].status_detail,
                                 !.logs = old.components[i].logs] = old.components[i]
                          /\ [new EXCEPT !.components = old.components,
                                         !.history = old.history,
                                         !.status = old.status,
                                         !.active = old.active,
                                         !.updated_at = old.updated_at] = old
       /\ \A k \in KeyInputs, p \in ProfileInputs :
              (k \in DOMAIN projects /\ launch_project(k, p)) =>
                  /\ DOMAIN projects' = DOMAIN projects
                  /\ \A other \in DOMAIN projects \ {k} :
                         projects'[other] = projects[other]
      ]_vars

\* stop of quasar's only component after a tick: quasar is Stopped, touched at
\* time 1, and the other projects are as they were loaded.
C29_Witness ==
    /\ projects["quasar"].status = "Stopped"
    /\ projects["quasar"].updated_at = 1
    /\ projects["quasar"].created_at = 0
    /\ \A k \in {"nebula", "aurora", "lunar"} : projects[k].updated_at = 0

====
